---- MODULE Spec2Model ----
(***************************************************************************)
(* Model of the plexinstaller installation transaction                     *)
(* (PlexInstaller._install_product and the helpers it calls), of the       *)
(* rollback (_cleanup_failed_install) and of the host-wide lock file       *)
(* (_acquire_lock / _release_lock).                                        *)
(*                                                                         *)
(* External tools (systemctl, nginx, certbot, ufw, npm, unrar) are         *)
(* modelled by their outcome: exit status 0, a non-zero exit status        *)
(* (subprocess.CalledProcessError when check=True) or another error        *)
(* raised by subprocess.run (OSError, TimeoutExpired).  The telemetry      *)
(* client is modelled as the recorder of the statuses it is handed.        *)
(***************************************************************************)
EXTENDS Integers, Sequences, FiniteSets, TLC

\* ---------------------------------------------------------------- bounds
\* Number of installer processes started concurrently (lock model).
NumProcs == 3

\* ------------------------------------------------------------- constants
DefaultPort == 3000
PollAttempts == 20

Product == "plextickets"
\* Instance names: the product name itself and one multi-instance name.
Instances == {"plextickets", "plextickets-b"}
NoDomain == "none"
Domain == "a.example.com"
NoPort == 0

\* Provenance of a host artifact: absent, present before the attempt
\* started ("old"), or written by the current attempt ("new").
Art == {"absent", "old", "new"}
\* State of an installation directory <install_dir>/<instance>:
\*   absent   - does not exist
\*   old      - installation that existed before the attempt, unmodified
\*   empty    - created empty by this attempt (mkdir)
\*   partial  - some of the archive's items moved in, or partly deleted
\*   app      - complete product tree written by this attempt
\*   merged   - pre-existing installation overwritten by this attempt
DirKinds == {"absent", "old", "empty", "partial", "app", "merged"}

\* Outcome of one external command run through subprocess.run.
CmdOutcomes == {"ok", "CalledProcessError", "OSError"}

VARIABLES
    pc,              \* position inside _install_product / rollback
    ctx,             \* the InstallationContext (created = FALSE: None)
    current_step,    \* local variable current_step
    params,          \* arguments has_dashboard, needs_web; requires_mongodb
    host,            \* host artifacts
    host0,           \* host artifacts when the attempt (or rollback) began
    session_active,  \* TelemetryClient._active
    events,          \* TelemetryClient._events as <<step, status>>
    final,           \* arguments of the finish_session call that closed
    printed,         \* last terminal message kind printed by the handler
    exc,             \* exception in flight: kind and text
    mongo_creds,     \* TRUE when _setup_mongodb returned credentials
    results,         \* self-test report: sequence of [name, status]
    rollbackCalls,   \* number of calls of _cleanup_failed_install
    rollbackArg,     \* the context handed to _cleanup_failed_install
    rbTrace,         \* rollback sub-steps attempted, in order
    rbErrors,        \* rollback sub-steps that hit an error
    warnings,        \* reminders printed with printer.warning by a step
    mongo_choice,    \* the answer typed at the MongoDB prompt
    lockfile,        \* inode the lock path names (0: no such file)
    locked,          \* inode -> process holding the flock (0: nobody)
    ppc,             \* per-process position in __init__ / exit
    fd,              \* per-process inode of _lock_fd (0: None)
    xpc,             \* position inside ArchiveExtractor.extract
    xarch,           \* the archive handed to extract()
    xtarget,         \* state of target_dir
    xtarget0,        \* state of target_dir when extract() was called
    xchecked,        \* number of zip members validated so far
    xstaged,         \* paths written below the staging directory
    xerr,            \* exception raised by extract(): type and text
    xret,            \* what _extract_product made of the call
    xlog,            \* failures observed so far: cause, type, coordinator
    apc,             \* position inside AddonManager.install_addon
    aarch,           \* the addon archive
    addons,          \* top-level entries of addons/: name -> state
    addons0,         \* the same when install_addon was called
    adelta,          \* new_items: entries created by the extraction
    amoved,          \* delta items moved into the derived folder
    aexc,            \* exception in flight inside install_addon
    aresult,         \* return value of install_addon
    awarned,         \* the repackaging warning was printed
    aprev,           \* result of the previous run of the same installation
    spc,             \* position inside _run_post_install_self_tests
    sin,             \* its inputs: context fields and the mongo credentials
    queries,         \* get_status calls made by the liveness loop
    is_active,       \* local variable is_active
    clock,           \* seconds since _wait_for_tcp_port computed its deadline
    port_ready,      \* local variable port_ready
    sreport,         \* the returned list of results
    upc,             \* position inside _perform_update
    uwho,            \* which updater runs: "installer" or "cli"
    ufiles,          \* content of each bundle file in /opt/plexinstaller
    ufiles0,         \* the same when _perform_update was called
    ubackups,        \* content of each backup/<file>.bak
    uidx,            \* index of the file the download loop is at
    uresult,         \* how _perform_update ended
    tpc,             \* position of each server worker inside add_event
    tpayload,        \* status of the event each worker is handling
    tlocal,          \* each worker's local variable stats
    tstats,          \* content of stats.json
    tlock,           \* workers holding the flock on .stats.lock
    tprocessed,      \* events whose statistics were saved, by counter
    tnext,           \* sequence number of the next event to be recorded
    tposted          \* POST /events requests received so far

txvars == <<pc, ctx, current_step, params, host, host0, session_active,
            events, final, printed, exc, mongo_creds, results,
            rollbackCalls, rollbackArg, rbTrace, rbErrors, warnings,
            mongo_choice>>
lockvars == <<lockfile, locked, ppc, fd>>
xvars == <<xpc, xarch, xtarget, xtarget0, xchecked, xstaged, xerr, xret, xlog>>
avars == <<apc, aarch, addons, addons0, adelta, amoved, aexc, aresult, awarned,
           aprev>>
svars == <<spc, sin, queries, is_active, clock, port_ready, sreport>>
uvars == <<upc, uwho, ufiles, ufiles0, ubackups, uidx, uresult>>
tvars == <<tpc, tpayload, tlocal, tstats, tlock, tprocessed, tnext, tposted>>
restvars == <<svars, uvars, tvars>>
nontxvars == <<lockvars, xvars, avars, restvars>>
nonlockvars == <<txvars, xvars, avars, restvars>>
nonxvars == <<txvars, lockvars, avars, restvars>>
nonavars == <<txvars, lockvars, xvars, restvars>>
nonsvars == <<txvars, lockvars, xvars, avars, uvars, tvars>>
nonuvars == <<txvars, lockvars, xvars, avars, svars, tvars>>
nontvars == <<txvars, lockvars, xvars, avars, svars, uvars>>
vars == <<pc, ctx, current_step, params, host, host0, session_active,
          events, final, printed, exc, mongo_creds, results,
          rollbackCalls, rollbackArg, rbTrace, rbErrors, warnings, mongo_choice,
          lockfile, locked, ppc, fd,
          xpc, xarch, xtarget, xtarget0, xchecked, xstaged, xerr, xret, xlog,
          apc, aarch, addons, addons0, adelta, amoved, aexc, aresult, awarned,
          aprev,
          spc, sin, queries, is_active, clock, port_ready, sreport,
          upc, uwho, ufiles, ufiles0, ubackups, uidx, uresult,
          tpc, tpayload, tlocal, tstats, tlock, tprocessed, tnext, tposted>>

\* ------------------------------------------------- InstallationContext
NoCtx ==
    [created |-> FALSE, instance_name |-> Product, install_path |-> Product,
     port |-> DefaultPort, domain |-> NoDomain,
     install_path_ready |-> FALSE, service_created |-> FALSE,
     nginx_configured |-> FALSE, ssl_configured |-> FALSE,
     opened_port |-> NoPort]

InstallationContext(instance, port) ==
    [created |-> TRUE, instance_name |-> instance, install_path |-> instance,
     port |-> port, domain |-> NoDomain,
     install_path_ready |-> FALSE, service_created |-> FALSE,
     nginx_configured |-> FALSE, ssl_configured |-> FALSE,
     opened_port |-> NoPort]

NoExc == [kind |-> "none", text |-> "", cause |-> ""]
NoFinal == [status |-> "none", failure_step |-> "", error |-> ""]

\* ------------------------------------------------------ telemetry client
\* TelemetryClient.log_step: appends an event while a session is active.
log_step(ev, active, step, status) ==
    IF active THEN Append(ev, <<step, status>>) ELSE ev

\* TelemetryClient.finish_session: records the summary, ends the session.
finish_session(fin, active, status, step, error) ==
    IF active
    THEN [status |-> status, failure_step |-> step, error |-> error]
    ELSE fin

\* ------------------------------------------------------------ host state
\* Hosts an attempt can start on: a bare host, or one where earlier runs
\* of the installer left installations (directory, optionally the unit,
\* optionally the web exposure of the same domain and port).
PreHosts ==
    { [dir  |-> d, unit |-> u, site |-> w, link |-> w, cert |-> w, fw |-> w] :
        d \in { dd \in [Instances -> {"absent", "old"}] :
                  dd["plextickets-b"] = "old" => dd["plextickets"] = "old" },
        u \in [Instances -> {"absent", "old"}],
        w \in {"absent", "old"} }

StartHosts ==
    { h \in PreHosts :
        /\ \A i \in Instances : h.unit[i] = "old" => h.dir[i] = "old"
        /\ h.site = "old" => h.dir["plextickets"] = "old" }

\* Callers of _install_product: has_dashboard / needs_web combinations.
CallerParams ==
    { [has_dashboard |-> TRUE,  needs_web |-> TRUE,  requires_mongodb |-> TRUE],
      [has_dashboard |-> FALSE, needs_web |-> FALSE, requires_mongodb |-> TRUE],
      [has_dashboard |-> FALSE, needs_web |-> TRUE,  requires_mongodb |-> TRUE],
      [has_dashboard |-> FALSE, needs_web |-> TRUE,  requires_mongodb |-> FALSE] }

LockIdle ==
    /\ lockfile = 0
    /\ locked = [i \in 1..NumProcs |-> 0]
    /\ ppc = [p \in 1..NumProcs |-> "off"]
    /\ fd = [p \in 1..NumProcs |-> 0]

\* No archive is being extracted by ArchiveExtractor.
NoArchive == [suffix |-> "", corrupt |-> "no", entries |-> << >>]
NoErr == [type |-> "none", text |-> "", site |-> "none"]
XIdle ==
    /\ xpc = "idle"
    /\ xarch = NoArchive
    /\ xtarget = "absent"
    /\ xtarget0 = "absent"
    /\ xchecked = 0
    /\ xstaged = {}
    /\ xerr = NoErr
    /\ xret = "none"
    /\ xlog = {}

\* No addon installation is in progress.
NoAddonArchive == [stem |-> << >>, format |-> "", fault |-> "none", items |-> << >>]
NoResult == [ok |-> FALSE, message |-> "none", name |-> << >>, folder |-> << >>]
AIdle ==
    /\ apc = "idle"
    /\ aarch = NoAddonArchive
    /\ addons = << >>
    /\ addons0 = << >>
    /\ adelta = {}
    /\ amoved = {}
    /\ aexc = NoExc
    /\ aresult = NoResult
    /\ awarned = FALSE
    /\ aprev = NoResult

NoSelfTestInput ==
    [service_created |-> FALSE, domain |-> NoDomain, creds |-> FALSE,
     requires |-> FALSE]
SIdle ==
    /\ spc = "idle"
    /\ sin = NoSelfTestInput
    /\ queries = 0
    /\ is_active = FALSE
    /\ clock = 0
    /\ port_ready = FALSE
    /\ sreport = << >>

\* installer.py 338, plex_cli.py 230: current_files, of which the model
\* keeps the first three.
BundleFiles == <<"installer.py", "config.py", "utils.py">>

UIdle ==
    /\ upc = "idle"
    /\ uwho = "none"
    /\ ufiles = [i \in DOMAIN BundleFiles |-> "old"]
    /\ ufiles0 = ufiles
    /\ ubackups = [i \in DOMAIN BundleFiles |-> "absent"]
    /\ uidx = 0
    /\ uresult = "none"

\* Server worker processes, each handling one request at a time.
NumWorkers == 2
Workers == 1..NumWorkers

\* server.py 89-95: the statistics _load_stats returns when stats.json does
\* not exist.
EmptyStats == [success |-> 0, failure |-> 0, other |-> 0, most_recent |-> << >>]

TIdle ==
    /\ tpc = [w \in Workers |-> "idle"]
    /\ tpayload = [w \in Workers |-> "none"]
    /\ tlocal = [w \in Workers |-> EmptyStats]
    /\ tstats = EmptyStats
    /\ tlock = {}
    /\ tprocessed = [success |-> 0, failure |-> 0, other |-> 0]
    /\ tnext = 1
    /\ tposted = 0

RestIdle == SIdle /\ UIdle /\ TIdle

TxFields ==
    /\ current_step = "initializing"
    /\ session_active = FALSE
    /\ events = << >>
    /\ final = NoFinal
    /\ printed = "none"
    /\ exc = NoExc
    /\ mongo_creds = FALSE
    /\ results = << >>
    /\ rbTrace = << >>
    /\ rbErrors = {}
    /\ warnings = {}
    /\ mongo_choice = "unasked"

Init ==
    /\ pc = "multi_instance"
    /\ ctx = NoCtx
    /\ params \in CallerParams
    /\ host \in StartHosts
    /\ host0 = host
    /\ rollbackCalls = 0
    /\ rollbackArg = NoCtx
    /\ TxFields
    /\ LockIdle
    /\ XIdle
    /\ AIdle
    /\ RestIdle

\* ------------------------------------------------------------ exceptions
\* An Exception propagating to `except Exception as e` of _install_product.
Raise(text) ==
    /\ pc' = "except_Exception"
    /\ exc' = [kind |-> "Exception", text |-> text, cause |-> text]

\* The step caught or saw the error `cause` of a callee, and _install_product
\* raises RuntimeError(text) in its place.
RaiseFrom(cause, text) ==
    /\ pc' = "except_Exception"
    /\ exc' = [kind |-> "Exception", text |-> text, cause |-> cause]

\* A KeyboardInterrupt propagating to `except KeyboardInterrupt`.
Interrupted ==
    /\ pc' = "except_KeyboardInterrupt"
    /\ exc' = [kind |-> "KeyboardInterrupt", text |-> "User interrupted",
               cause |-> "User interrupted"]

\* Position after the MongoDB step / after the web step.
AfterMongo ==
    IF params.needs_web THEN "web_setup"
    ELSE IF params.has_dashboard THEN "dashboard" ELSE "systemd"

\* Variant: the dashboard step is left out after the web step.
AfterWeb_SkipsDashboard == "systemd"

AfterWeb == IF params.has_dashboard THEN "dashboard" ELSE "systemd"

\* ------------------------------------------------- _handle_multi_instance
\* Names _handle_multi_instance can return: the product name when no
\* installation exists or the user answers other than 'y', else the name
\* the user types (any name matching the pattern, taken names included).
MultiInstanceNames(h) ==
    IF h.dir[Product] = "absent" THEN {Product} ELSE Instances

\* installer.py 568-581: instance name, context creation, session start.
HandleMultiInstance ==
    /\ pc = "multi_instance"
    /\ \/ \E name \in MultiInstanceNames(host) :
            /\ ctx' = InstallationContext(name, DefaultPort)
            /\ session_active' = TRUE
            /\ events' = log_step(<< >>, TRUE, "instance", "success")
            /\ pc' = "archive_selection"
            /\ exc' = exc
       \/ /\ host.dir[Product] # "absent"
          /\ Raise("Invalid instance name. Use only letters, numbers, dash, underscore")
          /\ UNCHANGED <<ctx, session_active, events>>
       \/ /\ host.dir[Product] # "absent"
          /\ Interrupted
          /\ UNCHANGED <<ctx, session_active, events>>
    /\ UNCHANGED <<current_step, params, host, host0, final, printed,
                   mongo_creds, results, rollbackCalls, rollbackArg,
                   rbTrace, rbErrors, warnings, mongo_choice,
                   nontxvars>>

\* Variant of FindArchive that treats a missing archive as an error
\* (raises instead of returning), which sends the attempt into rollback.
FindArchive_RaisesOnNone ==
    /\ pc = "archive_selection"
    /\ current_step' = "archive_selection"
    /\ LET started == log_step(events, session_active, "archive_selection", "start")
       IN \/ /\ events' = log_step(started, session_active, "archive_selection", "success")
             /\ pc' = "extraction"
             /\ UNCHANGED <<final, session_active, exc>>
          \/ /\ events' = log_step(started, session_active, "archive_selection", "aborted")
             /\ Raise("Archive not provided")
             /\ UNCHANGED <<final, session_active>>
          \/ /\ events' = started
             /\ Interrupted
             /\ UNCHANGED <<final, session_active>>
    /\ UNCHANGED <<ctx, params, host, host0, printed, mongo_creds, results,
                   rollbackCalls, rollbackArg, rbTrace, rbErrors, warnings, mongo_choice,
                   nontxvars>>

\* installer.py 583-591: archive selection.
FindArchive ==
    /\ pc = "archive_selection"
    /\ current_step' = "archive_selection"
    /\ LET started == log_step(events, session_active, "archive_selection", "start")
       IN \/ /\ events' = log_step(started, session_active, "archive_selection", "success")
             /\ pc' = "extraction"
             /\ UNCHANGED <<final, session_active, exc>>
          \/ /\ events' = log_step(started, session_active, "archive_selection", "aborted")
             /\ final' = finish_session(final, session_active, "aborted",
                                        "archive_selection", "Archive not provided")
             /\ session_active' = FALSE
             /\ pc' = "done"
             /\ exc' = exc
          \/ /\ events' = started
             /\ Interrupted
             /\ UNCHANGED <<final, session_active>>
    /\ UNCHANGED <<ctx, params, host, host0, printed, mongo_creds, results,
                   rollbackCalls, rollbackArg, rbTrace, rbErrors, warnings, mongo_choice,
                   nontxvars>>

\* ----------------------------------------------- ArchiveExtractor.extract
\* target_dir.mkdir(parents=True, exist_ok=True)
Mkdir(d) == IF d = "absent" THEN "empty" ELSE d

\* The move loop stopped part-way: some items of the archive are in place.
PartialMove(d) == IF d \in {"absent", "empty"} THEN "partial" ELSE "merged"

\* The move loop completed: every item of the archive replaced its namesake.
FullMove(d) == IF d \in {"absent", "empty"} THEN "app" ELSE "merged"

\* Directory states extract() can leave behind when it raises: before the
\* mkdir, after it (decompression failed in the staging directory), or
\* inside the move loop.
ExtractFailures(d) == {d, Mkdir(d), PartialMove(d)}

\* The errors extract() can raise (utils.py 598-626, 636-640), each with the
\* directory state it leaves behind.
ExtractErrors(d) ==
    { [dir |-> d, cause |-> "Archive not found"],
      [dir |-> Mkdir(d), cause |-> "Unsupported archive format"],
      [dir |-> Mkdir(d), cause |-> "Corrupted or invalid ZIP archive"],
      [dir |-> Mkdir(d), cause |-> "Path traversal attempt detected"],
      [dir |-> PartialMove(d), cause |-> "cannot move extracted item"] }

\* installer.py 593-601 with _extract_product (777-789).
ExtractProduct ==
    /\ pc = "extraction"
    /\ current_step' = "extraction"
    /\ LET started == log_step(events, session_active, "extraction", "start")
           p == ctx.install_path
       IN \/ /\ host' = [host EXCEPT !.dir[p] = FullMove(@)]
             /\ ctx' = [ctx EXCEPT !.install_path_ready = TRUE]
             /\ events' = log_step(started, session_active, "extraction", "success")
             /\ pc' = "npm_install"
             /\ exc' = exc
          \/ \E e \in ExtractErrors(host.dir[p]) :
                /\ host' = [host EXCEPT !.dir[p] = e.dir]
                /\ events' = started
                /\ ctx' = ctx
                /\ RaiseFrom(e.cause, "Archive extraction failed")
          \/ \E d \in ExtractFailures(host.dir[p]) :
                /\ host' = [host EXCEPT !.dir[p] = d]
                /\ events' = started
                /\ ctx' = ctx
                /\ Interrupted
    /\ UNCHANGED <<params, host0, session_active, final, printed, mongo_creds,
                   results, rollbackCalls, rollbackArg, rbTrace, rbErrors,
                   warnings, mongo_choice,
                   nontxvars>>

\* installer.py 603-608 with _install_npm_dependencies (791-813).
NpmInstall ==
    /\ pc = "npm_install"
    /\ current_step' = "npm_install"
    /\ LET started == log_step(events, session_active, "npm_install", "start")
       IN \/ /\ events' = log_step(started, session_active, "npm_install", "success")
             /\ pc' = "error_page"
             /\ exc' = exc
          \/ /\ events' = started
             /\ \/ RaiseFrom("No package.json found", "NPM install failed")
                \/ RaiseFrom("npm install returned non-zero exit status",
                             "NPM install failed")
                \/ Raise("Command npm timed out")
                \/ Interrupted
    /\ UNCHANGED <<ctx, params, host, host0, session_active, final, printed,
                   mongo_creds, results, rollbackCalls, rollbackArg, rbTrace,
                   rbErrors, warnings, mongo_choice,
                   nontxvars>>

\* installer.py 610-613 with _create_502_page (815-871).
Create502Page ==
    /\ pc = "error_page"
    /\ current_step' = "error_page"
    /\ \/ /\ events' = log_step(events, session_active, "error_page", "success")
          /\ pc' = "mongodb"
          /\ exc' = exc
       \/ /\ events' = events
          /\ \/ Raise("OSError writing 502.html")
             \/ Interrupted
    /\ UNCHANGED <<ctx, params, host, host0, session_active, final, printed,
                   mongo_creds, results, rollbackCalls, rollbackArg, rbTrace,
                   rbErrors, warnings, mongo_choice,
                   nontxvars>>

\* Variant: declining a required database aborts the installation.
SetupMongodb_RequiredDeclineFails ==
    /\ pc = "mongodb"
    /\ current_step' = "mongodb"
    /\ \/ \* the answer is not a yes (an empty answer is one when required)
          /\ mongo_choice' \in (IF params.requires_mongodb THEN {"n"} ELSE {"", "n"})
          /\ UNCHANGED <<mongo_creds, events>>
          /\ IF params.requires_mongodb
             THEN /\ warnings' = warnings \cup {"This product requires MongoDB."}
                  /\ Raise("This product requires MongoDB.")
             ELSE /\ warnings' = warnings
                  /\ pc' = AfterMongo
                  /\ exc' = exc
       \/ \* yes: the package installation fails (None) or all succeeds
          \E creds \in BOOLEAN :
            /\ mongo_choice' \in (IF params.requires_mongodb THEN {"", "y"} ELSE {"y"})
            /\ mongo_creds' = creds
            /\ warnings' = warnings
            /\ events' = log_step(events, session_active, "mongodb", "success")
            /\ pc' = AfterMongo
            /\ exc' = exc
       \/ \* yes, and a later sub-step raises
          /\ mongo_choice' \in (IF params.requires_mongodb THEN {"", "y"} ELSE {"y"})
          /\ UNCHANGED <<mongo_creds, events, warnings>>
          /\ Raise("Failed to create MongoDB database/user")
       \/ \* Ctrl-C at the prompt or later
          /\ UNCHANGED <<mongo_creds, events, warnings, mongo_choice>>
          /\ Interrupted
    /\ UNCHANGED <<ctx, params, host, host0, session_active, final, printed,
                   results, rollbackCalls, rollbackArg, rbTrace, rbErrors,
                   nontxvars>>

\* installer.py 615-621 with _setup_mongodb (880-931): a declined prompt
\* or a failed package installation returns None, success returns the
\* credentials, any later error is re-raised.
SetupMongodb ==
    /\ pc = "mongodb"
    /\ current_step' = "mongodb"
    /\ \/ \* the answer is not a yes (an empty answer is one when required)
          /\ mongo_choice' \in (IF params.requires_mongodb THEN {"n"} ELSE {"", "n"})
          /\ warnings' = IF params.requires_mongodb
                         THEN warnings \cup {"This product requires MongoDB."}
                         ELSE warnings
          /\ mongo_creds' = FALSE
          /\ events' = log_step(events, session_active, "mongodb", "success")
          /\ pc' = AfterMongo
          /\ exc' = exc
       \/ \* yes: the package installation fails (None) or all succeeds
          \E creds \in BOOLEAN :
            /\ mongo_choice' \in (IF params.requires_mongodb THEN {"", "y"} ELSE {"y"})
            /\ mongo_creds' = creds
            /\ warnings' = warnings
            /\ events' = log_step(events, session_active, "mongodb", "success")
            /\ pc' = AfterMongo
            /\ exc' = exc
       \/ \* yes, and a later sub-step raises
          /\ mongo_choice' \in (IF params.requires_mongodb THEN {"", "y"} ELSE {"y"})
          /\ UNCHANGED <<mongo_creds, events, warnings>>
          /\ Raise("Failed to create MongoDB database/user")
       \/ \* Ctrl-C at the prompt or later
          /\ UNCHANGED <<mongo_creds, events, warnings, mongo_choice>>
          /\ Interrupted
    /\ UNCHANGED <<ctx, params, host, host0, session_active, final, printed,
                   results, rollbackCalls, rollbackArg, rbTrace, rbErrors,
                   nontxvars>>

\* ------------------------------------------------------------- _setup_web
\* installer.py 1627-1666: port, domain and email prompts; the context
\* records opened_port, domain and email before the firewall is touched.
WebPrompt ==
    /\ pc = "web_setup"
    /\ current_step' = "web_setup"
    /\ \/ /\ ctx' = [ctx EXCEPT !.opened_port = DefaultPort, !.domain = Domain]
          /\ pc' = "web_firewall"
          /\ exc' = exc
       \/ /\ ctx' = ctx
          /\ Interrupted
    /\ UNCHANGED <<params, host, host0, session_active, events, final,
                   printed, mongo_creds, results, rollbackCalls, rollbackArg,
                   rbTrace, rbErrors, warnings, mongo_choice,
                   nontxvars>>

\* FirewallManager.open_port (utils.py 261-273) with _open_ufw /
\* _open_firewalld / _open_iptables: a rule is added, or the tool fails
\* (CalledProcessError, warning only), or no firewall tool is found.
open_port(fw, outcome) ==
    IF outcome = "ok" /\ fw = "absent" THEN "new" ELSE fw

\* installer.py 1668-1669.
WebFirewall ==
    /\ pc = "web_firewall"
    /\ \E o \in CmdOutcomes \cup {"no_firewall", "interrupt"} :
          /\ host' = [host EXCEPT !.fw = open_port(@, o)]
          /\ IF o = "OSError" THEN Raise("OSError running firewall tool")
             ELSE IF o = "interrupt" THEN Interrupted
             ELSE pc' = "web_dns" /\ exc' = exc
    /\ UNCHANGED <<ctx, current_step, params, host0, session_active, events,
                   final, printed, mongo_creds, results, rollbackCalls,
                   rollbackArg, rbTrace, rbErrors, warnings, mongo_choice,
                   nontxvars>>

\* installer.py 1671-1675: DNS check, optional "proceed anyway".
WebDns ==
    /\ pc = "web_dns"
    /\ \/ pc' = "web_nginx" /\ exc' = exc
       \/ Raise("Installation aborted due to DNS issues")
       \/ Interrupted
    /\ UNCHANGED <<ctx, current_step, params, host, host0, session_active,
                   events, final, printed, mongo_creds, results,
                   rollbackCalls, rollbackArg, rbTrace, rbErrors, warnings, mongo_choice,
                   nontxvars>>

\* NginxManager.setup (utils.py 374-425): write the site file, replace the
\* enabled symlink, then `nginx -t` and reload.  `stage` is how far it got:
\* 0 nothing written, 1 site file written, 2 symlink created as well,
\* 3 reload succeeded.
NginxSetup(h, stage) ==
    [h EXCEPT !.site = IF stage >= 1 THEN "new" ELSE @,
              !.link = IF stage >= 2 THEN "new" ELSE @]

\* installer.py 1677-1679.
WebNginx ==
    /\ pc = "web_nginx"
    /\ \/ /\ host' = NginxSetup(host, 3)
          /\ ctx' = [ctx EXCEPT !.nginx_configured = TRUE]
          /\ pc' = "web_ssl"
          /\ exc' = exc
       \/ \E stage \in 0..2 :
            /\ host' = NginxSetup(host, stage)
            /\ ctx' = ctx
            /\ \/ Raise(IF stage = 2 THEN "Nginx configuration failed"
                                     ELSE "OSError writing nginx site")
               \/ Interrupted
    /\ UNCHANGED <<current_step, params, host0, session_active, events,
                   final, printed, mongo_creds, results, rollbackCalls,
                   rollbackArg, rbTrace, rbErrors, warnings, mongo_choice,
                   nontxvars>>

\* SSLManager.setup (utils.py 433-452): certbot --nginx
\* --keep-until-expiring; exit status 0 means a certificate is in place.
SslSetup(h) == [h EXCEPT !.cert = IF @ = "absent" THEN "new" ELSE @]

\* installer.py 1681-1685 and 628-632.
WebSsl ==
    /\ pc = "web_ssl"
    /\ \/ /\ host' = SslSetup(host)
          /\ ctx' = [ctx EXCEPT !.ssl_configured = TRUE]
          /\ events' = log_step(events, session_active, "web_setup", "success")
          /\ pc' = AfterWeb
          /\ exc' = exc
       \/ /\ UNCHANGED <<host, ctx, events>>
          /\ \/ Raise("Command certbot returned non-zero exit status")
             \/ Interrupted
    /\ UNCHANGED <<current_step, params, host0, session_active, final,
                   printed, mongo_creds, results, rollbackCalls, rollbackArg,
                   rbTrace, rbErrors, warnings, mongo_choice,
                   nontxvars>>

\* installer.py 634-638 with _install_dashboard (1687-1703): the archive
\* is missing (skipped) or extracted below the install path; an error of
\* extract() is not caught here.
InstallDashboard ==
    /\ pc = "dashboard"
    /\ current_step' = "dashboard"
    /\ \/ /\ events' = log_step(events, session_active, "dashboard", "success")
          /\ pc' = "systemd"
          /\ exc' = exc
       \/ /\ events' = events
          /\ \/ Raise("Corrupted or invalid ZIP archive")
             \/ Interrupted
    /\ UNCHANGED <<ctx, params, host, host0, session_active, final, printed,
                   mongo_creds, results, rollbackCalls, rollbackArg, rbTrace,
                   rbErrors, warnings, mongo_choice,
                   nontxvars>>

\* SystemdManager.create_service (utils.py 490-523): write the unit file,
\* then daemon-reload, enable and start, each with check=True.  `stage`:
\* 0 the write failed, 1 unit written and a systemctl call failed,
\* 2 everything succeeded.
create_service(h, instance, stage) ==
    [h EXCEPT !.unit[instance] = IF stage >= 1 THEN "new" ELSE @]

\* installer.py 640-643 with _setup_systemd (1705-1715).
SetupSystemd ==
    /\ pc = "systemd"
    /\ current_step' = "systemd"
    /\ \/ \* the user declines auto-start
          /\ ctx' = [ctx EXCEPT !.service_created = FALSE]
          /\ host' = host
          /\ events' = log_step(events, session_active, "systemd", "success")
          /\ pc' = "self_tests"
          /\ exc' = exc
       \/ /\ host' = create_service(host, ctx.instance_name, 2)
          /\ ctx' = [ctx EXCEPT !.service_created = TRUE]
          /\ events' = log_step(events, session_active, "systemd", "success")
          /\ pc' = "self_tests"
          /\ exc' = exc
       \/ \E stage \in 0..1 :
            /\ host' = create_service(host, ctx.instance_name, stage)
            /\ UNCHANGED <<ctx, events>>
            /\ \/ Raise(IF stage = 1 THEN "Command systemctl returned non-zero exit status"
                                     ELSE "OSError writing unit file")
               \/ Interrupted
    /\ UNCHANGED <<params, host0, session_active, final, printed,
                   mongo_creds, results, rollbackCalls, rollbackArg, rbTrace,
                   rbErrors, warnings, mongo_choice,
                   nontxvars>>

\* --------------------------------------------- _run_post_install_self_tests
\* What the probes of the self-test observe on the host and the network.
\* active_at: index of the first `systemctl is-active` query answering
\* "active" (PollAttempts + 1: none of them does).
SelfTestEnvs ==
    [node_ok : BOOLEAN, package_json : BOOLEAN, node_modules : BOOLEAN,
     config_file : BOOLEAN, active_at : {1, PollAttempts, PollAttempts + 1},
     port_ready : BOOLEAN, http_ok : BOOLEAN, mongo_ok : BOOLEAN,
     rw_ok : BOOLEAN, nginx_active : {"active", "inactive", "exc"},
     nginx_t : {"ok", "fail", "exc"}, dns_ok : BOOLEAN, tls_ok : BOOLEAN]

AllPassEnv ==
    [node_ok |-> TRUE, package_json |-> TRUE, node_modules |-> TRUE,
     config_file |-> TRUE, active_at |-> 1, port_ready |-> TRUE,
     http_ok |-> TRUE, mongo_ok |-> TRUE, rw_ok |-> TRUE,
     nginx_active |-> "active", nginx_t |-> "ok", dns_ok |-> TRUE,
     tls_ok |-> TRUE]

\* Environments the installation transaction is explored with: everything
\* healthy, only warn-level probes unhealthy, and one fail-level probe
\* unhealthy at a time.  package.json exists (the npm step checked it).
TxSelfTestEnvs ==
    { AllPassEnv,
      [AllPassEnv EXCEPT !.node_modules = FALSE, !.config_file = FALSE,
                         !.http_ok = FALSE, !.rw_ok = FALSE,
                         !.nginx_active = "exc", !.nginx_t = "exc",
                         !.dns_ok = FALSE, !.tls_ok = FALSE],
      [AllPassEnv EXCEPT !.node_ok = FALSE],
      [AllPassEnv EXCEPT !.active_at = PollAttempts + 1, !.port_ready = FALSE],
      [AllPassEnv EXCEPT !.mongo_ok = FALSE, !.nginx_t = "fail"] }

Entry(name, status) == [name |-> name, status |-> status]

PassOr(ok, other) == IF ok THEN "pass" ELSE other

\* installer.py 1401-1443: service and local port entries.
ServiceEntries(c, env) ==
    IF c.service_created
    THEN << Entry("systemd service active",
                  PassOr(env.active_at <= PollAttempts, "fail")),
            Entry("Local TCP port reachable", PassOr(env.port_ready, "fail")) >>
         \o (IF env.port_ready
             THEN << Entry("Local HTTP responds", PassOr(env.http_ok, "warn")) >>
             ELSE << >>)
    ELSE << Entry("systemd auto-start", "warn") >>

\* Variant of MongoEntries that runs the read/write check whatever the
\* authentication check gave, and reports its failure as a fail.
MongoEntries_AlwaysReadWrite(creds, requires, env) ==
    IF creds
    THEN << Entry("MongoDB auth via generated URI", PassOr(env.mongo_ok, "fail")),
            Entry("MongoDB read/write", PassOr(env.rw_ok, "fail")) >>
    ELSE IF requires THEN << Entry("MongoDB configured", "warn") >> ELSE << >>

\* installer.py 1445-1494: MongoDB entries.
MongoEntries(creds, requires, env) ==
    IF creds
    THEN << Entry("MongoDB auth via generated URI", PassOr(env.mongo_ok, "fail")) >>
         \o (IF env.mongo_ok
             THEN << Entry("MongoDB read/write", PassOr(env.rw_ok, "warn")) >>
             ELSE << >>)
    ELSE IF requires THEN << Entry("MongoDB configured", "warn") >> ELSE << >>

\* installer.py 1496-1586: nginx and TLS entries.
WebEntries(c, h, env) ==
    IF c.domain # NoDomain
    THEN << Entry("nginx service active",
                  IF env.nginx_active = "exc" THEN "warn"
                  ELSE PassOr(env.nginx_active = "active", "fail")),
            Entry("nginx site config present", PassOr(h.site # "absent", "fail")),
            Entry("nginx site enabled", PassOr(h.link # "absent", "fail")),
            Entry("nginx config test",
                  IF env.nginx_t = "exc" THEN "warn"
                  ELSE PassOr(env.nginx_t = "ok", "fail")),
            Entry("SSL certificate present", PassOr(h.cert # "absent", "warn")),
            Entry("DNS resolves", PassOr(env.dns_ok, "warn")),
            Entry("HTTPS handshake", PassOr(env.tls_ok, "warn")) >>
    ELSE << >>

\* installer.py 1363-1589: the whole report.
SelfTestReport(c, creds, requires, h, env) ==
    << Entry("Node.js version", PassOr(env.node_ok, "fail")),
       Entry("package.json present", PassOr(env.package_json, "fail")),
       Entry("node_modules present", PassOr(env.node_modules, "warn")),
       Entry("Config file present", PassOr(env.config_file, "warn")) >>
    \o ServiceEntries(c, env)
    \o MongoEntries(creds, requires, env)
    \o WebEntries(c, h, env)

\* installer.py 648-649.
Failed(rs) == { i \in DOMAIN rs : rs[i].status = "fail" }

Warned(rs) == { i \in DOMAIN rs : rs[i].status = "warn" }

\* installer.py 650-655: the telemetry status of the self_tests step.
SelfTestStepStatus(rs) ==
    IF Failed(rs) # {} THEN "failure"
    ELSE IF Warned(rs) # {} THEN "warning" ELSE "success"

\* Variant of RunSelfTests that raises when the report has a fail entry,
\* turning an unhealthy report into a step failure.
RunSelfTests_RaisesOnFail ==
    /\ pc = "self_tests"
    /\ current_step' = "self_tests"
    /\ \/ \E env \in TxSelfTestEnvs :
            LET rs == SelfTestReport(ctx, mongo_creds, params.requires_mongodb,
                                     host, env)
            IN /\ results' = rs
               /\ events' = log_step(events, session_active, "self_tests",
                                     SelfTestStepStatus(rs))
               /\ IF Failed(rs) # {}
                  THEN Raise("Self-tests failed")
                  ELSE pc' = "post_install" /\ exc' = exc
       \/ /\ UNCHANGED <<results, events>>
          /\ Interrupted
    /\ UNCHANGED <<ctx, params, host, host0, session_active, final, printed,
                   mongo_creds, rollbackCalls, rollbackArg, rbTrace, rbErrors,
                   warnings, mongo_choice,
                   nontxvars>>

\* installer.py 645-655.
RunSelfTests ==
    /\ pc = "self_tests"
    /\ current_step' = "self_tests"
    /\ \/ \E env \in TxSelfTestEnvs :
            LET rs == SelfTestReport(ctx, mongo_creds, params.requires_mongodb,
                                     host, env)
            IN /\ results' = rs
               /\ events' = log_step(events, session_active, "self_tests",
                                     SelfTestStepStatus(rs))
               /\ pc' = "post_install"
               /\ exc' = exc
       \/ /\ UNCHANGED <<results, events>>
          /\ Interrupted
    /\ UNCHANGED <<ctx, params, host, host0, session_active, final, printed,
                   mongo_creds, rollbackCalls, rollbackArg, rbTrace, rbErrors,
                   warnings, mongo_choice,
                   nontxvars>>

\* installer.py 657-663 with _post_install (1717-1736): optional editor
\* run, then the success message and finish_session("success").
PostInstall ==
    /\ pc = "post_install"
    /\ current_step' = "post_install"
    /\ \/ /\ events' = log_step(events, session_active, "post_install", "success")
          /\ printed' = "installed successfully"
          /\ final' = finish_session(final, session_active, "success", "", "")
          /\ session_active' = FALSE
          /\ pc' = "done"
          /\ exc' = exc
       \/ /\ UNCHANGED <<events, printed, final, session_active>>
          /\ \/ Raise("No such file or directory: nano")
             \/ Interrupted
    /\ UNCHANGED <<ctx, params, host, host0, mongo_creds, results,
                   rollbackCalls, rollbackArg, rbTrace, rbErrors, warnings, mongo_choice,
                   nontxvars>>

\* ------------------------------------------------------- except handlers
\* Variant of HandleKeyboardInterrupt that reports the interrupt as an
\* ordinary failure.
HandleKeyboardInterrupt_RecordsFailure ==
    /\ pc = "except_KeyboardInterrupt"
    /\ printed' = "Installation cancelled by user"
    /\ events' = log_step(events, session_active, current_step, "cancelled")
    /\ final' = finish_session(final, session_active, "failure",
                               current_step, "User interrupted")
    /\ session_active' = FALSE
    /\ IF ctx.created
       THEN /\ rollbackCalls' = rollbackCalls + 1
            /\ rollbackArg' = ctx
            /\ pc' = "rb_service"
       ELSE /\ UNCHANGED <<rollbackCalls, rollbackArg>>
            /\ pc' = "done"
    /\ UNCHANGED <<ctx, current_step, params, host, host0, exc, mongo_creds,
                   results, rbTrace, rbErrors, warnings, mongo_choice,
                   nontxvars>>

\* installer.py 664-670.
HandleKeyboardInterrupt ==
    /\ pc = "except_KeyboardInterrupt"
    /\ printed' = "Installation cancelled by user"
    /\ events' = log_step(events, session_active, current_step, "cancelled")
    /\ final' = finish_session(final, session_active, "cancelled",
                               current_step, "User interrupted")
    /\ session_active' = FALSE
    /\ IF ctx.created
       THEN /\ rollbackCalls' = rollbackCalls + 1
            /\ rollbackArg' = ctx
            /\ pc' = "rb_service"
       ELSE /\ UNCHANGED <<rollbackCalls, rollbackArg>>
            /\ pc' = "done"
    /\ UNCHANGED <<ctx, current_step, params, host, host0, exc, mongo_creds,
                   results, rbTrace, rbErrors, warnings, mongo_choice,
                   nontxvars>>

\* Variant of HandleException without the call of the rollback.
HandleException_SkipsRollback ==
    /\ pc = "except_Exception"
    /\ printed' = "Installation failed"
    /\ final' = finish_session(final, session_active, "failure",
                               current_step, exc.text)
    /\ session_active' = FALSE
    /\ pc' = "done"
    /\ UNCHANGED <<rollbackCalls, rollbackArg>>
    /\ UNCHANGED <<ctx, current_step, params, host, host0, events, exc,
                   mongo_creds, results, rbTrace, rbErrors, warnings, mongo_choice,
                   nontxvars>>

\* installer.py 671-683.
HandleException ==
    /\ pc = "except_Exception"
    /\ printed' = "Installation failed"
    /\ final' = finish_session(final, session_active, "failure",
                               current_step, exc.text)
    /\ session_active' = FALSE
    /\ IF ctx.created
       THEN /\ rollbackCalls' = rollbackCalls + 1
            /\ rollbackArg' = ctx
            /\ pc' = "rb_service"
       ELSE /\ UNCHANGED <<rollbackCalls, rollbackArg>>
            /\ pc' = "done"
    /\ UNCHANGED <<ctx, current_step, params, host, host0, events, exc,
                   mongo_creds, results, rbTrace, rbErrors, warnings, mongo_choice,
                   nontxvars>>

\* ------------------------------------------------ _cleanup_failed_install
\* The rollback works on the context it was handed (rollbackArg).

\* installer.py 1742-1746 with SystemdManager.remove_service (utils.py
\* 569-585).  "CalledProcessError": daemon-reload fails after the unlink
\* (caught in remove_service); "OSError": stop or disable raises another
\* error before the unlink (caught by the except Exception of the caller).
RollbackService ==
    /\ pc = "rb_service"
    /\ IF rollbackArg.service_created
       THEN \E o \in CmdOutcomes :
              /\ host' = [host EXCEPT !.unit[rollbackArg.instance_name] =
                                         IF o = "OSError" THEN @ ELSE "absent"]
              /\ rbTrace' = Append(rbTrace, "service")
              /\ rbErrors' = IF o = "ok" THEN rbErrors
                             ELSE rbErrors \cup {"service"}
       ELSE UNCHANGED <<host, rbTrace, rbErrors>>
    /\ pc' = "rb_nginx"
    /\ UNCHANGED <<ctx, current_step, params, host0, session_active, events,
                   final, printed, exc, mongo_creds, results, rollbackCalls,
                   rollbackArg, warnings, mongo_choice,
                   nontxvars>>

\* installer.py 1748-1749 with _remove_nginx_config (1764-1784): each
\* unlink may fail (caught, warning); reload errors are swallowed.
RollbackNginx ==
    /\ pc = "rb_nginx"
    /\ IF rollbackArg.nginx_configured /\ rollbackArg.domain # NoDomain
       THEN \E linkFails \in BOOLEAN, siteFails \in BOOLEAN :
              /\ host' = [host EXCEPT
                            !.link = IF linkFails THEN @ ELSE "absent",
                            !.site = IF siteFails THEN @ ELSE "absent"]
              /\ rbTrace' = Append(rbTrace, "nginx")
              /\ rbErrors' = IF linkFails \/ siteFails
                             THEN rbErrors \cup {"nginx"} ELSE rbErrors
       ELSE UNCHANGED <<host, rbTrace, rbErrors>>
    /\ pc' = "rb_ssl"
    /\ UNCHANGED <<ctx, current_step, params, host0, session_active, events,
                   final, printed, exc, mongo_creds, results, rollbackCalls,
                   rollbackArg, warnings, mongo_choice,
                   nontxvars>>

\* installer.py 1751-1752 with _remove_ssl_certificate (1786-1795): only
\* subprocess.CalledProcessError is caught.
RollbackSsl ==
    /\ pc = "rb_ssl"
    /\ IF rollbackArg.ssl_configured /\ rollbackArg.domain # NoDomain
       THEN \E o \in CmdOutcomes :
              /\ host' = [host EXCEPT !.cert = IF o = "ok" THEN "absent" ELSE @]
              /\ rbTrace' = Append(rbTrace, "ssl")
              /\ rbErrors' = IF o = "ok" THEN rbErrors ELSE rbErrors \cup {"ssl"}
              /\ pc' = IF o = "OSError" THEN "escaped" ELSE "rb_dir"
       ELSE /\ UNCHANGED <<host, rbTrace, rbErrors>>
            /\ pc' = "rb_dir"
    /\ UNCHANGED <<ctx, current_step, params, host0, session_active, events,
                   final, printed, exc, mongo_creds, results, rollbackCalls,
                   rollbackArg, warnings, mongo_choice,
                   nontxvars>>

\* installer.py 1754-1759: shutil.rmtree(install_path, ignore_errors=True)
\* whenever the path exists.
RollbackDir ==
    /\ pc = "rb_dir"
    /\ IF host.dir[rollbackArg.install_path] # "absent"
       THEN \E ok \in BOOLEAN :
              /\ host' = [host EXCEPT !.dir[rollbackArg.install_path] =
                                         IF ok THEN "absent" ELSE "partial"]
              /\ rbTrace' = Append(rbTrace, "dir")
              /\ rbErrors' = IF ok THEN rbErrors ELSE rbErrors \cup {"dir"}
       ELSE UNCHANGED <<host, rbTrace, rbErrors>>
    /\ pc' = "rb_firewall"
    /\ UNCHANGED <<ctx, current_step, params, host0, session_active, events,
                   final, printed, exc, mongo_creds, results, rollbackCalls,
                   rollbackArg, warnings, mongo_choice,
                   nontxvars>>

\* FirewallManager.close_port (utils.py 275-284) with _close_ufw /
\* _close_firewalld / _close_iptables: the rule is deleted, or the tool
\* fails (CalledProcessError, warning only), or another error propagates,
\* or no firewall tool is installed.
close_port(fw, outcome) == IF outcome = "ok" THEN "absent" ELSE fw

\* installer.py 1761-1762, then the return into the except handler.
RollbackFirewall ==
    /\ pc = "rb_firewall"
    /\ IF rollbackArg.opened_port # NoPort
       THEN \E o \in CmdOutcomes \cup {"no_firewall"} :
              /\ host' = [host EXCEPT !.fw = close_port(@, o)]
              /\ rbTrace' = Append(rbTrace, "firewall")
              /\ rbErrors' = IF o \in {"ok", "no_firewall"} THEN rbErrors
                             ELSE rbErrors \cup {"firewall"}
              /\ pc' = IF o = "OSError" THEN "escaped" ELSE "done"
       ELSE /\ UNCHANGED <<host, rbTrace, rbErrors>>
            /\ pc' = "done"
    /\ UNCHANGED <<ctx, current_step, params, host0, session_active, events,
                   final, printed, exc, mongo_creds, results, rollbackCalls,
                   rollbackArg, warnings, mongo_choice,
                   nontxvars>>

Rollback ==
    \/ RollbackService
    \/ RollbackNginx
    \/ RollbackSsl
    \/ RollbackDir
    \/ RollbackFirewall

\* ------------------------------------------- the installation transaction
Next ==
    \/ HandleMultiInstance
    \/ FindArchive
    \/ ExtractProduct
    \/ NpmInstall
    \/ Create502Page
    \/ SetupMongodb
    \/ WebPrompt
    \/ WebFirewall
    \/ WebDns
    \/ WebNginx
    \/ WebSsl
    \/ InstallDashboard
    \/ SetupSystemd
    \/ RunSelfTests
    \/ PostInstall
    \/ HandleKeyboardInterrupt
    \/ HandleException
    \/ RollbackService
    \/ RollbackNginx
    \/ RollbackSsl
    \/ RollbackDir
    \/ RollbackFirewall

Spec == Init /\ [][Next]_vars

\* ------------------------------------------------ the rollback on its own
\* Contexts _cleanup_failed_install can be handed: every combination of the
\* four flags; domain and opened_port are assigned together, before the
\* nginx and TLS flags.
RollbackContexts ==
    { c \in [created : {TRUE}, instance_name : {Product},
             install_path : {Product}, port : {DefaultPort},
             domain : {NoDomain, Domain},
             install_path_ready : BOOLEAN, service_created : BOOLEAN,
             nginx_configured : BOOLEAN, ssl_configured : BOOLEAN,
             opened_port : {NoPort, DefaultPort}] :
        /\ (c.domain = Domain) <=> (c.opened_port # NoPort)
        /\ (c.nginx_configured \/ c.ssl_configured) => c.domain = Domain }

\* Host states at the time of the call that agree with the context: what a
\* set flag recorded is there; unrecorded artifacts may be there as well.
RollbackHosts(c) ==
    { h \in [dir  : [Instances -> DirKinds], unit : [Instances -> {"absent", "new"}],
             site : {"absent", "new"}, link : {"absent", "new"},
             cert : {"absent", "new"}, fw : {"absent", "new"}] :
        /\ h.dir["plextickets-b"] = "absent"
        /\ h.unit["plextickets-b"] = "absent"
        /\ c.install_path_ready => h.dir[c.install_path] \in {"app", "merged"}
        /\ ~c.install_path_ready => h.dir[c.install_path] \notin {"app"}
        /\ c.service_created => h.unit[c.instance_name] = "new"
        /\ c.nginx_configured => h.site = "new" /\ h.link = "new"
        /\ c.ssl_configured => h.cert = "new"
        /\ c.opened_port = NoPort => h.fw = "absent" }

InitRollback ==
    /\ pc = "rb_service"
    /\ ctx \in RollbackContexts
    /\ rollbackArg = ctx
    /\ rollbackCalls = 1
    /\ params \in CallerParams
    /\ host \in RollbackHosts(ctx)
    /\ host0 = host
    /\ TxFields
    /\ LockIdle
    /\ XIdle
    /\ AIdle
    /\ RestIdle

SpecRollback == InitRollback /\ [][Rollback]_vars

\* ------------------------------------------------------- the lock file
\* Installer processes 1..NumProcs share the path LOCK_FILE.  An inode is
\* named after the process whose open() created it; 0 stands for "none".
Procs == 1..NumProcs

\* A process is started as root and reaches `self._acquire_lock()`.
StartProcess(p) ==
    /\ ppc[p] = "off"
    /\ ppc' = [ppc EXCEPT ![p] = "open"]
    /\ UNCHANGED <<lockfile, locked, fd, nonlockvars>>

\* installer.py 103: open(LOCK_FILE, 'w') opens the file the path names,
\* creating it when the path does not exist.
LockOpen(p) ==
    /\ ppc[p] = "open"
    /\ lockfile' = IF lockfile = 0 THEN p ELSE lockfile
    /\ fd' = [fd EXCEPT ![p] = lockfile']
    /\ ppc' = [ppc EXCEPT ![p] = "flock"]
    /\ UNCHANGED <<locked, nonlockvars>>

\* installer.py 104-112 and 77-79: flock(LOCK_EX | LOCK_NB) on the open
\* file; on failure the descriptor is closed and the process exits.
LockFlock(p) ==
    /\ ppc[p] = "flock"
    /\ IF locked[fd[p]] = 0
       THEN /\ locked' = [locked EXCEPT ![fd[p]] = p]
            /\ ppc' = [ppc EXCEPT ![p] = "init"]
            /\ fd' = fd
       ELSE /\ locked' = locked
            /\ fd' = [fd EXCEPT ![p] = 0]
            /\ ppc' = [ppc EXCEPT ![p] = "refused"]
    /\ UNCHANGED <<lockfile, nonlockvars>>

\* installer.py 81-98: the rest of __init__ completes and registers
\* _release_lock with atexit.
InitDone(p) ==
    /\ ppc[p] = "init"
    /\ ppc' = [ppc EXCEPT ![p] = "running"]
    /\ UNCHANGED <<lockfile, locked, fd, nonlockvars>>

\* The process ends without running _release_lock: the kernel closes its
\* descriptors, which drops the flock it holds; the lock file stays.
ProcessGone(p) ==
    /\ locked' = [i \in DOMAIN locked |-> IF locked[i] = p THEN 0 ELSE locked[i]]
    /\ fd' = [fd EXCEPT ![p] = 0]
    /\ ppc' = [ppc EXCEPT ![p] = "exited"]
    /\ lockfile' = lockfile

\* Variant: the lock outlives the process that took it.
ExitInInit_LockSurvives(p) ==
    /\ ppc[p] = "init"
    /\ fd' = [fd EXCEPT ![p] = 0]
    /\ ppc' = [ppc EXCEPT ![p] = "exited"]
    /\ UNCHANGED <<lockfile, locked, nonlockvars>>

\* installer.py 81-95: __init__ is left by an exception after the lock was
\* taken and before atexit.register (e.g. Ctrl-C or EOF at the telemetry
\* prompt, line 189).
ExitInInit(p) ==
    /\ ppc[p] = "init"
    /\ ProcessGone(p)
    /\ UNCHANGED nonlockvars

\* The running installer is killed by a signal: no atexit handler runs.
Killed(p) ==
    /\ ppc[p] = "running"
    /\ ProcessGone(p)
    /\ UNCHANGED nonlockvars

\* installer.py 116-118: at exit, _release_lock unlocks the open file.
ReleaseUnlock(p) ==
    /\ ppc[p] = "running"
    /\ locked' = [locked EXCEPT ![fd[p]] = 0]
    /\ ppc' = [ppc EXCEPT ![p] = "rel_close"]
    /\ UNCHANGED <<lockfile, fd, nonlockvars>>

\* installer.py 119-120.
ReleaseClose(p) ==
    /\ ppc[p] = "rel_close"
    /\ fd' = [fd EXCEPT ![p] = 0]
    /\ ppc' = [ppc EXCEPT ![p] = "rel_unlink"]
    /\ UNCHANGED <<lockfile, locked, nonlockvars>>

\* installer.py 122-125: os.unlink(LOCK_FILE) removes whatever file the
\* path names; a missing file is ignored.
ReleaseUnlink(p) ==
    /\ ppc[p] = "rel_unlink"
    /\ lockfile' = 0
    /\ ppc' = [ppc EXCEPT ![p] = "exited"]
    /\ UNCHANGED <<locked, fd, nonlockvars>>

NextLock ==
    \E p \in Procs :
        \/ StartProcess(p)
        \/ LockOpen(p)
        \/ LockFlock(p)
        \/ InitDone(p)
        \/ ExitInInit(p)
        \/ Killed(p)
        \/ ReleaseUnlock(p)
        \/ ReleaseClose(p)
        \/ ReleaseUnlink(p)

\* No installation is in progress in the lock model.
TxIdle ==
    /\ pc = "idle"
    /\ ctx = NoCtx
    /\ params = [has_dashboard |-> FALSE, needs_web |-> TRUE,
                 requires_mongodb |-> TRUE]
    /\ host = [dir |-> [i \in Instances |-> "absent"],
               unit |-> [i \in Instances |-> "absent"],
               site |-> "absent", link |-> "absent", cert |-> "absent",
               fw |-> "absent"]
    /\ host0 = host
    /\ rollbackCalls = 0
    /\ rollbackArg = NoCtx
    /\ TxFields

InitLock == TxIdle /\ LockIdle /\ XIdle /\ AIdle /\ RestIdle

SpecLock == InitLock /\ [][NextLock]_vars

\* Processes that hold the installer lock as far as they know: past a
\* successful _acquire_lock and not yet in _release_lock.
Holders == { p \in Procs : ppc[p] \in {"init", "running"} }

\* ------------------------------------------------ the archive extractor
\* Paths are sequences of names, names are sequences of characters, so
\* that str(path) and str.startswith are the strings the code compares.
Sep == "/"
R == <<"r">>
RE == <<"r", "e">>
A == <<"a">>
DotDot == <<".", ".">>

\* The resolved extraction root (temp_path.resolve()): /r.
RootPath == <<R>>

\* str(path) of an absolute path.
RECURSIVE PathStr(_)
PathStr(p) ==
    IF p = << >> THEN << >> ELSE <<Sep>> \o Head(p) \o PathStr(Tail(p))

str(p) == IF p = << >> THEN <<Sep>> ELSE PathStr(p)

\* str.startswith.
startswith(s, t) == Len(t) <= Len(s) /\ SubSeq(s, 1, Len(t)) = t

\* Path.resolve() of a path that names no symlink: ".." components are
\* folded lexically, ".." at the filesystem root stays at the root.
RECURSIVE Normalize(_, _)
Normalize(base, comps) ==
    IF comps = << >> THEN base
    ELSE LET c == Head(comps)
             nb == IF c = DotDot
                   THEN (IF base = << >> THEN << >>
                         ELSE SubSeq(base, 1, Len(base) - 1))
                   ELSE Append(base, c)
         IN Normalize(nb, Tail(comps))

\* (target_path / member).resolve(): an absolute member replaces the root.
resolve(root, m) == Normalize(IF m.abs THEN << >> ELSE root, m.comps)

\* The validation of _extract_zip: the member is accepted when the string
\* of its resolved path starts with the string of the resolved root.
MemberAccepted(root, m) == startswith(str(resolve(root, m)), str(root))

\* Where ZipFile.extractall writes a member: below the root, with the
\* leading slash and every ".." component dropped from the member name.
IsName(c) == c # DotDot
ExtractedPath(root, m) == root \o SelectSeq(m.comps, IsName)

\* Member names an archive may carry.
Rel(comps) == [abs |-> FALSE, comps |-> comps]
Abs(comps) == [abs |-> TRUE, comps |-> comps]
Members ==
    { Rel(<<A>>), Rel(<<A, DotDot, A>>), Rel(<<DotDot, R, A>>),
      Rel(<<DotDot, A>>), Rel(<<DotDot, RE, A>>),
      Abs(<<A>>), Abs(<<R, A>>), Abs(<<RE, A>>) }

\* Longest member list of a modelled archive.
MaxEntries == 2

MemberLists == UNION { [1..k -> Members] : k \in 0..MaxEntries }

\* Archives handed to extract(): zip files, sound or corrupt (unreadable
\* when opened, or with a damaged member found while decompressing), and a
\* file whose suffix no branch handles.
Archives ==
    { [suffix |-> ".zip", corrupt |-> c, entries |-> e] :
          c \in {"no", "data"}, e \in MemberLists }
    \cup { [suffix |-> ".zip", corrupt |-> "open", entries |-> << >>],
           [suffix |-> ".7z", corrupt |-> "no", entries |-> << >>] }

\* extract() is called by _extract_product.
XStart ==
    /\ xpc = "idle"
    /\ xarch' \in Archives
    /\ xtarget' \in {"absent", "old"}
    /\ xtarget0' = xtarget'
    /\ xchecked' = 0
    /\ xstaged' = {}
    /\ xerr' = NoErr
    /\ xret' = "none"
    /\ xpc' = "mkdir"
    /\ UNCHANGED <<xlog, nonxvars>>

\* utils.py 601-605: target_dir.mkdir(parents=True, exist_ok=True).
XMkdir ==
    /\ xpc = "mkdir"
    /\ xtarget' = Mkdir(xtarget)
    /\ xpc' = "dispatch"
    /\ UNCHANGED <<xarch, xtarget0, xchecked, xstaged, xerr, xret, xlog,
                   nonxvars>>

\* extract() raises: the staging directory is discarded, target_dir stays.
XRaise(type, text, site) ==
    /\ xerr' = [type |-> type, text |-> text, site |-> site]
    /\ xpc' = "raised"

\* utils.py 612-626: dispatch on the suffix; ZipFile() of an unreadable
\* archive raises BadZipFile, re-raised as ValueError.
XDispatch ==
    /\ xpc = "dispatch"
    /\ IF xarch.suffix # ".zip"
       THEN XRaise("ValueError", "Unsupported archive format", "unsupported")
       ELSE IF xarch.corrupt = "open"
       THEN XRaise("ValueError", "Corrupted or invalid ZIP archive", "corrupt")
       ELSE xpc' = "check" /\ xerr' = xerr
    /\ UNCHANGED <<xarch, xtarget, xtarget0, xchecked, xstaged, xret, xlog,
                   nonxvars>>

\* utils.py 652-656: one iteration of the validation loop of _extract_zip.
XCheck ==
    /\ xpc = "check"
    /\ xchecked < Len(xarch.entries)
    /\ IF MemberAccepted(RootPath, xarch.entries[xchecked + 1])
       THEN xchecked' = xchecked + 1 /\ xpc' = xpc /\ xerr' = xerr
       ELSE /\ XRaise("ValueError", "Path traversal attempt detected",
                      "traversal")
            /\ xchecked' = xchecked
    /\ UNCHANGED <<xarch, xtarget, xtarget0, xstaged, xret, xlog, nonxvars>>

\* utils.py 657: zip_ref.extractall(target_path) after the loop; a damaged
\* member raises BadZipFile after the members before it were written.
XExtractAll ==
    /\ xpc = "check"
    /\ xchecked = Len(xarch.entries)
    /\ LET written(k) == { ExtractedPath(RootPath, xarch.entries[i]) :
                             i \in 1..k }
       IN IF xarch.corrupt = "data"
          THEN \E k \in 0..Len(xarch.entries) :
                  /\ xstaged' = written(k)
                  /\ XRaise("ValueError", "Corrupted or invalid ZIP archive",
                            "corrupt")
          ELSE /\ xstaged' = written(Len(xarch.entries))
               /\ xpc' = "move"
               /\ xerr' = xerr
    /\ UNCHANGED <<xarch, xtarget, xtarget0, xchecked, xret, xlog, nonxvars>>

\* utils.py 628-645: the move loop into target_dir, which may stop part-way
\* on an OSError.
XMove ==
    /\ xpc = "move"
    /\ \/ /\ xtarget' = FullMove(xtarget)
          /\ xpc' = "returned"
          /\ xerr' = xerr
       \/ /\ xtarget' = PartialMove(xtarget)
          /\ XRaise("OSError", "cannot move extracted item", "move")
    /\ UNCHANGED <<xarch, xtarget0, xchecked, xstaged, xret, xlog, nonxvars>>

\* installer.py 777-789 and 596-598: _extract_product turns every
\* exception into None, and _install_product raises its own RuntimeError.
XWrapper ==
    /\ xpc \in {"raised", "returned"}
    /\ IF xpc = "returned"
       THEN xret' = "path" /\ xlog' = xlog
       ELSE /\ xret' = "None"
            /\ xlog' = xlog \cup { [cause |-> xerr.site, type |-> xerr.type,
                                    coordinator |-> "Archive extraction failed"] }
    /\ xpc' = "done"
    /\ UNCHANGED <<xarch, xtarget, xtarget0, xchecked, xstaged, xerr, nonxvars>>

\* The installer goes back to its menu; another installation may follow.
XAgain ==
    /\ xpc = "done"
    /\ xpc' = "idle"
    /\ UNCHANGED <<xarch, xtarget, xtarget0, xchecked, xstaged, xerr, xret,
                   xlog, nonxvars>>

NextExtract ==
    \/ XStart
    \/ XMkdir
    \/ XDispatch
    \/ XCheck
    \/ XExtractAll
    \/ XMove
    \/ XWrapper
    \/ XAgain

InitExtract == TxIdle /\ LockIdle /\ XIdle /\ AIdle /\ RestIdle

SpecExtract == InitExtract /\ [][NextExtract]_vars

\* ---------------------------------------------------- addon installation
\* Names are sequences of tokens; a known suffix is one token, so that
\* name.lower().endswith(suffix) is a test on the last token.
KnownSuffixes == <<"-main", "-master", "-addon", "-v1", "-v2">>

\* str.lower() on a token.
Lower(tok) == IF tok = "-V2" THEN "-v2" ELSE tok

\* One iteration of the suffix loop of _handle_extracted_items.
StripSuffix(name, suffix) ==
    IF name # << >> /\ Lower(name[Len(name)]) = suffix
    THEN SubSeq(name, 1, Len(name) - 1)
    ELSE name

\* The suffix loop: every suffix is tried once, in the order of the list.
RECURSIVE StripSuffixes(_, _)
StripSuffixes(name, suffixes) ==
    IF suffixes = << >> THEN name
    ELSE StripSuffixes(StripSuffix(name, Head(suffixes)), Tail(suffixes))

\* Variant: the archive base name is used as it is.
DeriveName_KeepsSuffix(stem) == stem

\* addon_name of case 2: archive_path.stem with the suffixes removed.
DeriveName(stem) == StripSuffixes(stem, KnownSuffixes)

\* Archive base names (archive_path.stem).
Stems ==
    { <<"MyAddon">>, <<"MyAddon", "-v2">>, <<"MyAddon", "-V2">>,
      <<"MyAddon", "-v1", "-main">>, <<"MyAddon", "-main", "-v1">>,
      <<"Other", "-addon">>, <<"-v2">> }

\* Top-level names an archive may carry, with the kinds they may have.
ItemKinds ==
    [n \in {<<"MyAddon">>, <<"Other">>, <<"a.js">>, <<"b.js">>, <<"c.js">>} |->
        IF n = <<"MyAddon">> THEN {"file", "dir"}
        ELSE IF n = <<"Other">> THEN {"dir"} ELSE {"file"}]

ItemNames == DOMAIN ItemKinds

\* Every name that can appear at the top level of addons/.
AllNames == ItemNames \cup ({ DeriveName(st) : st \in Stems } \ {<< >>})

\* The top-level content of an archive: name -> kind.
ItemSets ==
    UNION { { f \in [S -> {"file", "dir"}] : \A n \in S : f[n] \in ItemKinds[n] } :
            S \in SUBSET ItemNames }

\* Archive formats with the ways their extraction can go wrong: a zip that
\* cannot be opened, a damaged member, a member the traversal check
\* rejects; unrar missing ("open") or exiting non-zero ("data"); a rar
\* whose extraction leaves a symbolic link that resolves outside the
\* target directory ("link"), which unrar extracts with exit status 0.
FormatFaults ==
    ({".zip"} \X {"none", "open", "data", "traversal"})
    \cup ({".rar"} \X {"none", "open", "data", "link"})
    \cup ({".7z"} \X {"none"})

AddonArchives ==
    { [stem |-> st, format |-> ff[1], fault |-> ff[2], items |-> it] :
          st \in Stems, ff \in FormatFaults, it \in ItemSets }

\* addons/ before the call: entries that exist already.
AddonDirs ==
    { [n \in AllNames |->
          IF n = <<"MyAddon">> THEN m
          ELSE IF n = <<"Other">> THEN o
          ELSE IF n = <<"a.js">> THEN f ELSE "none"] :
      m \in {"none", "olddir", "oldfile"}, o \in {"none", "olddir"},
      f \in {"none", "oldfile"} }

\* Top-level entries that exist.
Entries(a) == { n \in DOMAIN a : a[n] # "none" }

\* install_addon(archive_path, product_path) is called: lines 83-88.
AStart ==
    /\ apc = "idle"
    /\ aarch' \in AddonArchives
    /\ addons' \in AddonDirs
    /\ addons0' = addons'
    /\ apc' = "extract"
    /\ UNCHANGED <<adelta, amoved, aexc, aresult, awarned, aprev, nonavars>>

\* An exception raised inside the try block of install_addon.
ARaise(kind, text) ==
    /\ aexc' = [kind |-> kind, text |-> text]
    /\ apc' = IF kind = "FileExistsError" THEN "except_FileExistsError"
              ELSE "except_Exception"

\* Extracting one top-level item onto the entry of its name.
Conflict(st, kind) ==
    \/ st \in {"oldfile", "oldfile_w"} /\ kind = "dir"
    \/ st \in {"olddir", "olddir_w"} /\ kind = "file"

WriteEntry(st, kind) ==
    IF st = "none" THEN (IF kind = "dir" THEN "newdir" ELSE "newfile")
    ELSE IF st = "oldfile" THEN "oldfile_w"
    ELSE IF st = "olddir" THEN "olddir_w"
    ELSE st

WriteItems(a, items, S) ==
    [n \in DOMAIN a |-> IF n \in S THEN WriteEntry(a[n], items[n]) ELSE a[n]]

\* addon_manager.py 121-141: _extract_archive_to writes into addons/.
AExtract ==
    /\ apc = "extract"
    /\ LET items == aarch.items
           dom == DOMAIN items
           fits == { n \in dom : ~ Conflict(addons[n], items[n]) }
       IN IF aarch.format \notin {".zip", ".rar"}
          THEN ARaise("ValueError", "Unsupported archive format") /\ addons' = addons
          ELSE IF aarch.fault = "open"
          THEN /\ addons' = addons
               /\ IF aarch.format = ".zip"
                  THEN ARaise("BadZipFile", "File is not a zip file")
                  ELSE ARaise("FileNotFoundError", "unrar command not found")
          ELSE IF aarch.fault = "traversal"
          THEN ARaise("ValueError", "Path traversal attempt detected") /\ addons' = addons
          ELSE IF aarch.fault = "data" \/ fits # dom
          THEN \E S \in SUBSET fits :
                  /\ addons' = WriteItems(addons, items, S)
                  /\ IF aarch.format = ".zip"
                     THEN ARaise("BadZipFile", "Bad CRC-32 or unwritable member")
                     ELSE ARaise("CalledProcessError", "unrar returned non-zero exit status")
          ELSE /\ addons' = WriteItems(addons, items, dom)
               /\ apc' = "snapshot"
               /\ aexc' = aexc
    /\ UNCHANGED <<aarch, addons0, adelta, amoved, aresult, awarned, aprev,
                   nonavars>>

\* addon_manager.py 94-99: the delta, and the return when it is empty.
ASnapshot ==
    /\ apc = "snapshot"
    /\ adelta' = Entries(addons) \ Entries(addons0)
    /\ IF adelta' = {}
       THEN /\ aresult' = [NoResult EXCEPT !.message =
                               "No files were extracted from the archive"]
            /\ apc' = "done"
       ELSE aresult' = aresult /\ apc' = "normalize"
    /\ UNCHANGED <<aarch, addons, addons0, amoved, aexc, awarned, aprev,
                   nonavars>>

Installed(name) ==
    [ok |-> TRUE, message |-> "installed successfully", name |-> name,
     folder |-> name]

\* Variant: a single extracted directory is repackaged like loose files.
HandleExtractedItems_AlwaysRepackages ==
    /\ apc = "normalize"
    /\ LET single == FALSE
           name == DeriveName(aarch.stem)
           exists == name = << >> \/ addons[name] # "none"
           others == adelta \ {name}
           moved(S) == [n \in DOMAIN addons |->
                           IF n = name THEN "newdir"
                           ELSE IF n \in S THEN "none" ELSE addons[n]]
       IN IF single
          THEN /\ aresult' = Installed(CHOOSE n \in adelta : TRUE)
               /\ apc' = "done"
               /\ UNCHANGED <<addons, amoved, aexc, awarned>>
          ELSE IF exists /\ name \notin adelta
          THEN /\ ARaise("FileExistsError", "Addon already exists")
               /\ UNCHANGED <<addons, amoved, aresult, awarned>>
          ELSE IF addons[name] = "newfile"
          THEN /\ ARaise("FileExistsError", "File exists")
               /\ UNCHANGED <<addons, amoved, aresult, awarned>>
          ELSE \/ /\ addons' = moved(others)
                  /\ amoved' = others
                  /\ awarned' = TRUE
                  /\ aresult' = Installed(name)
                  /\ apc' = "done"
                  /\ aexc' = aexc
               \/ \E S \in SUBSET others :
                     /\ S # others
                     /\ addons' = moved(S)
                     /\ amoved' = S
                     /\ ARaise("OSError", "cannot move item")
                     /\ UNCHANGED <<aresult, awarned>>
    /\ UNCHANGED <<aarch, addons0, adelta, aprev, nonavars>>

\* addon_manager.py 143-200 and 101-116: _handle_extracted_items, then the
\* permissions and the successful return.
HandleExtractedItems ==
    /\ apc = "normalize"
    /\ LET single == /\ Cardinality(adelta) = 1
                     /\ \A n \in adelta : addons[n] = "newdir"
           name == DeriveName(aarch.stem)
           exists == name = << >> \/ addons[name] # "none"
           others == adelta \ {name}
           moved(S) == [n \in DOMAIN addons |->
                           IF n = name THEN "newdir"
                           ELSE IF n \in S THEN "none" ELSE addons[n]]
       IN IF single
          THEN /\ aresult' = Installed(CHOOSE n \in adelta : TRUE)
               /\ apc' = "done"
               /\ UNCHANGED <<addons, amoved, aexc, awarned>>
          ELSE IF exists /\ name \notin adelta
          THEN /\ ARaise("FileExistsError", "Addon already exists")
               /\ UNCHANGED <<addons, amoved, aresult, awarned>>
          ELSE IF addons[name] = "newfile"
          THEN /\ ARaise("FileExistsError", "File exists")
               /\ UNCHANGED <<addons, amoved, aresult, awarned>>
          ELSE \/ /\ addons' = moved(others)
                  /\ amoved' = others
                  /\ awarned' = TRUE
                  /\ aresult' = Installed(name)
                  /\ apc' = "done"
                  /\ aexc' = aexc
               \/ \E S \in SUBSET others :
                     /\ S # others
                     /\ addons' = moved(S)
                     /\ amoved' = S
                     /\ ARaise("OSError", "cannot move item")
                     /\ UNCHANGED <<aresult, awarned>>
    /\ UNCHANGED <<aarch, addons0, adelta, aprev, nonavars>>

\* addon_manager.py 114-115: except FileExistsError.
AExceptFileExistsError ==
    /\ apc = "except_FileExistsError"
    /\ aresult' = [NoResult EXCEPT !.message = aexc.text]
    /\ apc' = "done"
    /\ UNCHANGED <<aarch, addons, addons0, adelta, amoved, aexc, awarned, aprev,
                   nonavars>>

\* addon_manager.py 202-213: best-effort removal of what is new.
CleanupNewItems(a, before, removed) ==
    [n \in DOMAIN a |-> IF n \in removed THEN "none" ELSE a[n]]

\* addon_manager.py 116-119: except Exception, with _cleanup_new_items,
\* which stops silently at the first item it cannot remove.
AExceptException ==
    /\ apc = "except_Exception"
    /\ \E removed \in SUBSET (Entries(addons) \ Entries(addons0)) :
          addons' = CleanupNewItems(addons, addons0, removed)
    /\ aresult' = [NoResult EXCEPT !.message = "Installation failed"]
    /\ apc' = "done"
    /\ UNCHANGED <<aarch, addons0, adelta, amoved, aexc, awarned, aprev,
                   nonavars>>

\* The same archive is installed once more into the destination as it was.
ARepeat ==
    /\ apc = "done"
    /\ aprev = NoResult
    /\ aprev' = aresult
    /\ addons' = addons0
    /\ adelta' = {}
    /\ amoved' = {}
    /\ aexc' = NoExc
    /\ aresult' = NoResult
    /\ awarned' = FALSE
    /\ apc' = "extract"
    /\ UNCHANGED <<aarch, addons0, nonavars>>

NextAddon ==
    \/ AStart
    \/ AExtract
    \/ ASnapshot
    \/ HandleExtractedItems
    \/ AExceptFileExistsError
    \/ AExceptException
    \/ ARepeat

InitAddon == TxIdle /\ LockIdle /\ XIdle /\ AIdle /\ RestIdle

SpecAddon == InitAddon /\ [][NextAddon]_vars

\* ------------------------------------------- the self-test, step by step
\* installer.py 1328: timeout_seconds=45 passed at 1421; 1333: the connect
\* timeout; 1336 and 1409: time.sleep(1).
PortTimeout == 45
ConnectTimeout == 2
SleepSeconds == 1

\* Arguments of _run_post_install_self_tests: the context fields it reads
\* and whether mongo_creds carries a URI.
SelfTestInputs ==
    [service_created : BOOLEAN, domain : {NoDomain, Domain},
     creds : BOOLEAN, requires : BOOLEAN]

\* The call.
STStart ==
    /\ spc = "idle"
    /\ sin' \in SelfTestInputs
    /\ spc' = "basic"
    /\ UNCHANGED <<queries, is_active, clock, port_ready, sreport, nonsvars>>

\* installer.py 1366-1398: Node.js, package.json, node_modules, config file.
STBasic ==
    /\ spc = "basic"
    /\ \E env \in [node_ok : BOOLEAN, package_json : BOOLEAN,
                   node_modules : BOOLEAN, config_file : BOOLEAN] :
          sreport' = << Entry("Node.js version", PassOr(env.node_ok, "fail")),
                        Entry("package.json present", PassOr(env.package_json, "fail")),
                        Entry("node_modules present", PassOr(env.node_modules, "warn")),
                        Entry("Config file present", PassOr(env.config_file, "warn")) >>
    /\ spc' = IF sin.service_created THEN "poll" ELSE "entries"
    /\ UNCHANGED <<sin, queries, is_active, clock, port_ready, nonsvars>>

\* What `systemctl is-active` can answer, "unknown" standing for no output
\* and for any exception inside get_status (utils.py 549-560).
ServiceStates == {"active", "activating", "failed", "unknown"}

\* Variant of STQuery without the break: the loop goes on to its twentieth
\* query after an "active" answer.
STQuery_NoBreak ==
    /\ spc = "poll"
    /\ queries < PollAttempts
    /\ queries' = queries + 1
    /\ \E status \in ServiceStates :
          is_active' = (is_active \/ status = "active")
    /\ spc' = IF queries' = PollAttempts THEN "port_poll" ELSE "poll"
    /\ UNCHANGED <<sin, clock, port_ready, sreport, nonsvars>>

\* installer.py 1404-1409: one iteration of `for _ in range(20)`.
STQuery ==
    /\ spc = "poll"
    /\ queries < PollAttempts
    /\ queries' = queries + 1
    /\ \E status \in ServiceStates :
          IF status = "active"
          THEN is_active' = TRUE /\ spc' = "port_poll"
          ELSE /\ is_active' = is_active
               /\ spc' = IF queries' = PollAttempts THEN "port_poll" ELSE "poll"
    /\ UNCHANGED <<sin, clock, port_ready, sreport, nonsvars>>

\* installer.py 1328-1337, called at 1421: one iteration of the while loop
\* of _wait_for_tcp_port.  A refused or timed-out connection costs up to
\* ConnectTimeout seconds and is followed by the sleep.
STConnect ==
    /\ spc = "port_poll"
    /\ clock < PortTimeout
    /\ \/ /\ port_ready' = TRUE
          /\ spc' = "entries"
          /\ clock' = clock
       \/ \E d \in 0..ConnectTimeout :
             /\ clock' = clock + d + SleepSeconds
             /\ UNCHANGED <<port_ready, spc>>
    /\ UNCHANGED <<sin, queries, is_active, sreport, nonsvars>>

\* installer.py 1331, 1337: the deadline has passed, return False.
STDeadline ==
    /\ spc = "port_poll"
    /\ clock >= PortTimeout
    /\ port_ready' = FALSE
    /\ spc' = "entries"
    /\ UNCHANGED <<sin, queries, is_active, clock, sreport, nonsvars>>

\* installer.py 1411-1443: the service, port and HTTP entries; the loop
\* locals are gone after this point.
STServiceEntries ==
    /\ spc = "entries"
    /\ \E http_ok \in BOOLEAN :
          sreport' = sreport \o
              ServiceEntries(sin,
                  [active_at |-> IF is_active THEN queries ELSE PollAttempts + 1,
                   port_ready |-> port_ready, http_ok |-> http_ok])
    /\ queries' = 0
    /\ clock' = 0
    /\ spc' = "mongo"
    /\ UNCHANGED <<sin, is_active, port_ready, nonsvars>>

\* installer.py 1445-1494.
STMongo ==
    /\ spc = "mongo"
    /\ \E env \in [mongo_ok : BOOLEAN, rw_ok : BOOLEAN] :
          sreport' = sreport \o MongoEntries(sin.creds, sin.requires, env)
    /\ spc' = "web"
    /\ UNCHANGED <<sin, queries, is_active, clock, port_ready, nonsvars>>

\* installer.py 1496-1589: the nginx and TLS entries, the summary, return.
STWeb ==
    /\ spc = "web"
    /\ \E env \in [nginx_active : {"active", "inactive", "exc"},
                   nginx_t : {"ok", "fail", "exc"}, dns_ok : BOOLEAN,
                   tls_ok : BOOLEAN],
          h \in [site : {"absent", "new"}, link : {"absent", "new"},
                 cert : {"absent", "new"}] :
          sreport' = sreport \o WebEntries(sin, h, env)
    /\ spc' = "done"
    /\ UNCHANGED <<sin, queries, is_active, clock, port_ready, nonsvars>>

\* The next installation runs the self-test again.
STAgain ==
    /\ spc = "done"
    /\ spc' = "idle"
    /\ sin' = NoSelfTestInput
    /\ is_active' = FALSE
    /\ port_ready' = FALSE
    /\ sreport' = << >>
    /\ UNCHANGED <<queries, clock, nonsvars>>

NextSelfTest ==
    \/ STStart
    \/ STBasic
    \/ STQuery
    \/ STConnect
    \/ STDeadline
    \/ STServiceEntries
    \/ STMongo
    \/ STWeb
    \/ STAgain

InitSelfTest == TxIdle /\ LockIdle /\ XIdle /\ AIdle /\ RestIdle

\* Every probe of the self-test is bounded by a timeout, so the function
\* keeps taking steps.
SpecSelfTest == InitSelfTest /\ [][NextSelfTest]_vars /\ WF_vars(NextSelfTest)

\* ------------------------------------------------------- the self-update
\* Contents of a bundle file: "old" is what the installed version shipped,
\* "new" what the release publishes (its SHA-256 equals the published
\* checksum), "stale" what an earlier update left in backup/.
Updaters == {"installer", "cli"}
FileIdx == DOMAIN BundleFiles

\* What one iteration of the download loop meets: the key is not in
\* download_urls, urlopen or read raises, the digest differs from the
\* checksum, the key is not in checksums, or the content verifies.
DownloadOutcomes == {"skip", "download_error", "mismatch", "missing", "ok"}

\* _perform_update(version_data) is called with the bundle directory in a
\* state an earlier installation or update can have left.
UStart ==
    /\ upc = "idle"
    /\ uwho' \in Updaters
    /\ ufiles' \in [FileIdx -> {"old", "absent"}]
    /\ ufiles0' = ufiles'
    /\ ubackups' \in [FileIdx -> {"absent", "stale"}]
    /\ upc' = "verify"
    /\ UNCHANGED <<uidx, uresult, nonuvars>>

\* installer.py 342-344, plex_cli.py 219-226: the root check of the CLI
\* and the signature check; both return before anything is touched.
UVerify ==
    /\ upc = "verify"
    /\ \/ upc' = "backup" /\ uresult' = uresult
       \/ upc' = "done" /\ uresult' = "aborted"
    /\ UNCHANGED <<uwho, ufiles, ufiles0, ubackups, uidx, nonuvars>>

\* The handling of an exception raised inside _perform_update: the
\* installer catches it and restores (installer.py 405); the CLI lets it
\* propagate to _maybe_auto_update, which returns (plex_cli.py 302-304).
URaise ==
    IF uwho = "installer"
    THEN upc' = "restore" /\ uresult' = uresult
    ELSE upc' = "done" /\ uresult' = "failed"

\* installer.py 348-357, plex_cli.py 232-250: backup_dir.mkdir and the copy
\* of every existing file to backup/<file>.bak; a copy may raise after the
\* files before it were copied.
UBackup ==
    /\ upc = "backup"
    /\ \E k \in 0..Len(BundleFiles) :
          /\ ubackups' = [i \in FileIdx |->
                             IF i <= k /\ ufiles[i] # "absent"
                             THEN ufiles[i] ELSE ubackups[i]]
          /\ IF k = Len(BundleFiles)
             THEN upc' = "loop" /\ uidx' = 1 /\ uresult' = uresult
             ELSE URaise /\ uidx' = uidx
    /\ UNCHANGED <<uwho, ufiles, ufiles0, nonuvars>>

\* installer.py 370-391, plex_cli.py 252-274: one iteration of the loop
\* over files_to_update.
UDownload ==
    /\ upc = "loop"
    /\ uidx <= Len(BundleFiles)
    /\ \E o \in DownloadOutcomes :
          IF o = "skip"
          THEN uidx' = uidx + 1 /\ UNCHANGED <<ufiles, upc, uresult>>
          ELSE IF o = "ok"
          THEN /\ ufiles' = [ufiles EXCEPT ![uidx] = "new"]
               /\ uidx' = uidx + 1
               /\ UNCHANGED <<upc, uresult>>
          ELSE URaise /\ UNCHANGED <<ufiles, uidx>>
    /\ UNCHANGED <<uwho, ufiles0, ubackups, nonuvars>>

\* installer.py 393-403, plex_cli.py 276-279: the loop is over, the
\* process restarts itself.
URestart ==
    /\ upc = "loop"
    /\ uidx > Len(BundleFiles)
    /\ upc' = "done"
    /\ uresult' = "updated"
    /\ UNCHANGED <<uwho, ufiles, ufiles0, ubackups, uidx, nonuvars>>

\* installer.py 405-421: every file that has a backup is copied back; a
\* copy may raise after the files before it were restored, which is
\* reported and not raised.
URestore ==
    /\ upc = "restore"
    /\ \E k \in 0..Len(BundleFiles) :
          ufiles' = [i \in FileIdx |->
                        IF i <= k /\ ubackups[i] # "absent"
                        THEN ubackups[i] ELSE ufiles[i]]
    /\ upc' = "done"
    /\ uresult' = "failed"
    /\ UNCHANGED <<uwho, ufiles0, ubackups, uidx, nonuvars>>

\* The next start of the program checks for updates again.
UAgain ==
    /\ upc = "done"
    /\ upc' = "idle"
    /\ uwho' = "none"
    /\ ufiles' = [i \in FileIdx |-> "old"]
    /\ ufiles0' = ufiles'
    /\ ubackups' = [i \in FileIdx |-> "absent"]
    /\ uidx' = 0
    /\ uresult' = "none"
    /\ UNCHANGED nonuvars

NextUpdate ==
    \/ UStart
    \/ UVerify
    \/ UBackup
    \/ UDownload
    \/ URestart
    \/ URestore
    \/ UAgain

InitUpdate == TxIdle /\ LockIdle /\ XIdle /\ AIdle /\ RestIdle

SpecUpdate == InitUpdate /\ [][NextUpdate]_vars

\* ---------------------------------------------------- the telemetry server
\* server.py 165: most_recent keeps the first 20 entries.
RecentLimit == 20

\* Requests posted in one exploration.
MaxEvents == 3

\* Status strings of a payload; anything that is not "success" or "failure"
\* after lower() counts as other.
Statuses == {"success", "FAILURE", "cancelled"}

\* str.lower() on a status.
StatusLower(st) == IF st = "FAILURE" THEN "failure" ELSE st

\* server.py 146-156: the counter a status increments.
CounterOf(st) ==
    IF StatusLower(st) = "success" THEN "success"
    ELSE IF StatusLower(st) = "failure" THEN "failure" ELSE "other"

\* server.py 157-164: recent.insert(0, entry); entries are represented by
\* the sequence number of their event.
InsertFront(recent, e) == <<e>> \o recent

\* server.py 165: recent[:20].
Truncate(recent) ==
    IF Len(recent) > RecentLimit THEN SubSeq(recent, 1, RecentLimit) ELSE recent

\* stats.json after n events with status success were recorded.
StatsAfter(n) ==
    [success |-> n, failure |-> 0, other |-> 0,
     most_recent |-> [i \in 1..n |-> n + 1 - i]]

\* A request arrives at worker w and passes the API key check and
\* _validate_session_id (server.py 138-141).
TReceive(w) ==
    /\ tpc[w] = "idle"
    /\ tposted < MaxEvents
    /\ tposted' = tposted + 1
    /\ \E st \in Statuses : tpayload' = [tpayload EXCEPT ![w] = st]
    /\ tpc' = [tpc EXCEPT ![w] = "validated"]
    /\ UNCHANGED <<tlocal, tstats, tlock, tprocessed, tnext, nontvars>>

\* Variant of TLock that does not wait for the holder of the lock.
TLock_NoWait(w) ==
    /\ tpc[w] = "validated"
    /\ tlock' = tlock \cup {w}
    /\ tpc' = [tpc EXCEPT ![w] = "locked"]
    /\ UNCHANGED <<tpayload, tlocal, tstats, tprocessed, tnext, tposted,
                   nontvars>>

\* server.py 73-78: open the lock file and flock(LOCK_EX), which blocks
\* while another open file description holds the lock.
TLock(w) ==
    /\ tpc[w] = "validated"
    /\ tlock = {}
    /\ tlock' = tlock \cup {w}
    /\ tpc' = [tpc EXCEPT ![w] = "locked"]
    /\ UNCHANGED <<tpayload, tlocal, tstats, tprocessed, tnext, tposted,
                   nontvars>>

\* server.py 144 with _load_stats (84-95).
TLoad(w) ==
    /\ tpc[w] = "locked"
    /\ tlocal' = [tlocal EXCEPT ![w] = tstats]
    /\ tpc' = [tpc EXCEPT ![w] = "loaded"]
    /\ UNCHANGED <<tpayload, tstats, tlock, tprocessed, tnext, tposted,
                   nontvars>>

\* server.py 146-165: one counter is incremented and the entry is put in
\* front of most_recent, which is cut to RecentLimit entries.
TUpdate(w) ==
    /\ tpc[w] = "loaded"
    /\ LET c == CounterOf(tpayload[w])
           st == tlocal[w]
       IN tlocal' = [tlocal EXCEPT
              ![w] = [st EXCEPT
                         ![c] = st[c] + 1,
                         !.most_recent = Truncate(InsertFront(st.most_recent, tnext))]]
    /\ tnext' = tnext + 1
    /\ tpc' = [tpc EXCEPT ![w] = "updated"]
    /\ UNCHANGED <<tpayload, tstats, tlock, tprocessed, tposted, nontvars>>

\* server.py 167-171: _save_stats and the line appended to events.jsonl.
TSave(w) ==
    /\ tpc[w] = "updated"
    /\ tstats' = tlocal[w]
    /\ tprocessed' = [tprocessed EXCEPT ![CounterOf(tpayload[w])] = @ + 1]
    /\ tpc' = [tpc EXCEPT ![w] = "saved"]
    /\ UNCHANGED <<tpayload, tlocal, tlock, tnext, tposted, nontvars>>

\* server.py 79-81 and 173-180: the lock is released, the log is written,
\* the handler returns.
TUnlock(w) ==
    /\ tpc[w] = "saved"
    /\ tlock' = tlock \ {w}
    /\ tpc' = [tpc EXCEPT ![w] = "idle"]
    /\ tpayload' = [tpayload EXCEPT ![w] = "none"]
    /\ tlocal' = [tlocal EXCEPT ![w] = EmptyStats]
    /\ UNCHANGED <<tstats, tprocessed, tnext, tposted, nontvars>>

NextTelemetry ==
    \E w \in Workers :
        \/ TReceive(w)
        \/ TLock(w)
        \/ TLoad(w)
        \/ TUpdate(w)
        \/ TSave(w)
        \/ TUnlock(w)

\* The server starts with no stats.json or with the one earlier requests
\* left: here after RecentLimit - 1 reported successes.
InitTelemetry ==
    /\ TxIdle /\ LockIdle /\ XIdle /\ AIdle /\ SIdle /\ UIdle
    /\ tpc = [w \in Workers |-> "idle"]
    /\ tpayload = [w \in Workers |-> "none"]
    /\ tlocal = [w \in Workers |-> EmptyStats]
    /\ \E n \in {0, RecentLimit - 1} :
          /\ tstats = StatsAfter(n)
          /\ tprocessed = [success |-> n, failure |-> 0, other |-> 0]
          /\ tnext = n + 1
    /\ tlock = {}
    /\ tposted = 0

SpecTelemetry == InitTelemetry /\ [][NextTelemetry]_vars

\* ======================================================== properties

\* The except handler of _install_product has run for the exception in
\* flight (the attempt is in, or past, its rollback).
Handled == exc.kind # "none" /\ pc \notin {"except_Exception", "except_KeyboardInterrupt"}

\* What the flags of a context record is present on the host.
ArtifactsInPlace(c, h) ==
    /\ c.install_path_ready => h.dir[c.install_path] \in {"app", "merged"}
    /\ c.service_created => h.unit[c.instance_name] = "new"
    /\ c.nginx_configured => h.site = "new" /\ h.link = "new"
    /\ c.ssl_configured => h.cert # "absent"

C2_FalseFlagMeansAbsent ==
    ctx.created =>
        /\ ~ctx.service_created => host.unit[ctx.instance_name] # "new"
        /\ ~ctx.nginx_configured => (host.site # "new" /\ host.link # "new")
        /\ ~ctx.ssl_configured => host.cert # "new"
        /\ ctx.opened_port = NoPort => host.fw # "new"

\* C3 (as claimed): after a rollback in which no sub-step hit an error,
\* the artifact of every true flag is gone and the artifact of every
\* false flag is as it was when the rollback was called.
C3_RollbackFollowsFlags ==
    LET c == rollbackArg
    IN (pc = "done" /\ rollbackCalls = 1 /\ rbErrors = {}) =>
        /\ IF c.service_created
           THEN host.unit[c.instance_name] = "absent"
           ELSE host.unit[c.instance_name] = host0.unit[c.instance_name]
        /\ IF c.nginx_configured
           THEN host.site = "absent" /\ host.link = "absent"
           ELSE host.site = host0.site /\ host.link = host0.link
        /\ IF c.ssl_configured
           THEN host.cert = "absent"
           ELSE host.cert = host0.cert
        /\ IF c.install_path_ready
           THEN host.dir[c.install_path] = "absent"
           ELSE host.dir[c.install_path] = host0.dir[c.install_path]

\* C4 (as claimed): a failed or cancelled attempt whose target path held
\* an installation before it started leaves that installation in place,
\* unmodified.
C4_ExistingInstallationKept ==
    (/\ pc \in {"done", "escaped"}
     /\ ctx.created
     /\ final.status \in {"failure", "cancelled"}
     /\ host0.dir[ctx.install_path] = "old")
        => host.dir[ctx.install_path] = "old"

\* Rollback sub-steps the context asks for.
RollbackDue(c, h) ==
    (IF c.service_created THEN {"service"} ELSE {})
    \cup (IF c.nginx_configured THEN {"nginx"} ELSE {})
    \cup (IF c.ssl_configured THEN {"ssl"} ELSE {})
    \cup (IF c.install_path_ready /\ h.dir[c.install_path] # "absent"
          THEN {"dir"} ELSE {})
    \cup (IF c.opened_port # NoPort THEN {"firewall"} ELSE {})

\* C5 (as claimed): whichever rollback sub-steps fail, the rollback never
\* raises, and when it has returned every sub-step whose flag is set has
\* been attempted.
C5_RollbackNeverRaises ==
    /\ pc # "escaped"
    /\ (pc = "done" /\ rollbackCalls = 1) =>
          RollbackDue(rollbackArg, host0) \subseteq { rbTrace[i] : i \in DOMAIN rbTrace }

\* C6 (as claimed): when every step succeeded, the final status differs
\* from plain success exactly when the self-test report has a fail entry.
C6_FailMeansUnhealthy ==
    (pc = "done" /\ exc.kind = "none" /\ results # << >>) =>
        (Failed(results) # {} <=> final.status # "success")

\* C7: a self-test report with fail entries does not raise and does not
\* trigger the rollback: the step hands over to post_install with the
\* context and every host artifact as they were.
C7_SelfTestFailureKeepsInstallation ==
    [][(pc = "self_tests" /\ results' # << >> /\ Failed(results') # {}) =>
          /\ pc' = "post_install"
          /\ rollbackCalls' = 0
          /\ host' = host
          /\ ctx' = ctx
          /\ ArtifactsInPlace(ctx', host')]_vars

\* C7 witness: post_install is reached with failing self-tests while the
\* service and the web exposure of the attempt are in place.
C7_Witness ==
    /\ pc = "post_install"
    /\ Failed(results) # {}
    /\ ctx.service_created
    /\ ctx.ssl_configured
    /\ host.unit[ctx.instance_name] = "new"
    /\ rollbackCalls = 0

\* The archive selection of the attempt yielded no archive.
NoArchiveSelected ==
    \E i \in DOMAIN events : events[i] = <<"archive_selection", "aborted">>

\* C8: when no archive is selected the attempt ends with status aborted,
\* the rollback is not called, no flag of the context is set and the host
\* is as it was before the attempt.
C8_NoArchiveAborts ==
    NoArchiveSelected =>
        /\ pc = "done"
        /\ final.status = "aborted"
        /\ rollbackCalls = 0
        /\ ctx = InstallationContext(ctx.instance_name, DefaultPort)
        /\ host = host0

\* C8 witness: an aborted attempt on a host that already had the product.
C8_Witness ==
    /\ NoArchiveSelected
    /\ final.status = "aborted"
    /\ host0.dir[Product] = "old"
    /\ ctx.instance_name = Product

C10_MutualExclusion == Cardinality(Holders) <= 1


\* --------------------------------------------------------------- C11
\* The resolved path of a member lies outside the extraction root: it is
\* neither the root nor a path below it.
Escapes(root, m) ==
    LET rp == resolve(root, m)
    IN ~ (Len(rp) >= Len(root) /\ SubSeq(rp, 1, Len(root)) = root)

HasEscapingMember(arch) ==
    \E i \in 1..Len(arch.entries) : Escapes(RootPath, arch.entries[i])

\* C11: for a zip archive no entry is written before every entry has been
\* validated, and when some entry escapes the extraction root ("../" or an
\* absolute path), extraction fails with the traversal error and no file
\* has been written.
C11_TraversalFailsClosed ==
    /\ xstaged # {} => xchecked = Len(xarch.entries)
    /\ (/\ xpc \in {"move", "raised", "returned", "done"}
        /\ xarch.suffix = ".zip"
        /\ xarch.corrupt = "no"
        /\ HasEscapingMember(xarch))
       => xerr.site = "traversal" /\ xstaged = {}


\* --------------------------------------------------------------- C12
\* C12: when extract() fails on a corrupt zip archive, the target
\* directory is exactly as it was before the call; a target that did not
\* exist does not exist afterwards.
C12_CorruptLeavesTargetUntouched ==
    (xpc \in {"raised", "done"} /\ xerr.site = "corrupt")
        => xerr.type = "ValueError" /\ xtarget = xtarget0


\* --------------------------------------------------------------- C17
ArchiveLayerFailures == {"corrupt", "unsupported", "traversal"}

\* C17: a corrupt archive, an unsupported extension and a path-traversal
\* entry are reported as different error kinds by the extractor, and the
\* installation coordinator sees a different outcome for each of them.
C17_ArchiveFailuresDistinguishable ==
    \A a, b \in xlog :
        (/\ a.cause \in ArchiveLayerFailures
         /\ b.cause \in ArchiveLayerFailures
         /\ a.cause # b.cause)
        => a.type # b.type /\ a.coordinator # b.coordinator


\* --------------------------------------------------------------- C13
\* C13: when install_addon has returned a failure, the set of top-level
\* entries of addons/ equals the snapshot taken before the call.
C13_FailureRestoresSnapshot ==
    (apc = "done" /\ ~ aresult.ok) => Entries(addons) = Entries(addons0)


\* --------------------------------------------------------------- C14
\* The delta is exactly one directory (case 1 of _handle_extracted_items).
SingleDirectoryDelta ==
    Cardinality(adelta) = 1 /\ \A n \in adelta : addons[n] = "newdir"

\* The derived name is taken by an entry that existed before the call.
DerivedNameTaken ==
    LET name == DeriveName(aarch.stem)
    IN name # << >> /\ addons0[name] = "olddir"

\* C14: when the delta is not exactly one directory and a folder with the
\* derived name exists that is not part of the delta, install_addon fails
\* with the name-collision error and that folder is as it was before the
\* call: nothing was moved or written into it.
C14_CollisionKeepsExistingFolder ==
    (/\ apc = "done"
     /\ adelta # {}
     /\ ~ SingleDirectoryDelta
     /\ DerivedNameTaken)
    => /\ ~ aresult.ok
       /\ aresult.message = "Addon already exists"
       /\ amoved = {}
       /\ addons[DeriveName(aarch.stem)] = "olddir"


\* --------------------------------------------------------------- C15
\* The extraction succeeded and left a delta that is not one directory.
RepackagingCase == apc = "done" /\ adelta # {} /\ ~ SingleDirectoryDelta

\* Every delta item is inside the derived folder, none is loose at the top
\* level, the folder exists and the repackaging warning was printed.
Repackaged ==
    LET name == DeriveName(aarch.stem)
    IN /\ aresult.ok
       /\ aresult.name = name
       /\ aresult.folder = name
       /\ name # << >>
       /\ addons[name] = "newdir"
       /\ amoved = adelta \ {name}
       /\ \A n \in adelta \ {name} : addons[n] = "none"
       /\ awarned

\* The derived name is the stem without trailing tokens; a stem that ends
\* in a known suffix loses it; MyAddon-v2 gives MyAddon.
NameDerivedFromStem ==
    LET stem == aarch.stem
        name == DeriveName(stem)
    IN /\ Len(name) <= Len(stem)
       /\ name = SubSeq(stem, 1, Len(name))
       /\ (\E i \in 1..Len(KnownSuffixes) :
              Lower(stem[Len(stem)]) = KnownSuffixes[i])
          => Len(name) < Len(stem)
       /\ stem = <<"MyAddon", "-v2">> => name = <<"MyAddon">>

DerivedNameFree ==
    LET name == DeriveName(aarch.stem)
    IN /\ name # << >>
       /\ addons0[name] = "none"
       /\ ~ (name \in DOMAIN aarch.items /\ aarch.items[name] = "file")

C16_SingleDirectoryKept ==
    (apc = "done" /\ SingleDirectoryDelta)
    => \E X \in adelta :
          /\ aresult = Installed(X)
          /\ amoved = {}
          /\ ~ awarned
          /\ Entries(addons) = Entries(addons0) \cup {X}
          /\ aprev # NoResult => aprev = aresult

\* The archive MyAddon-v2.zip holding the single directory Other/ has been
\* installed twice as Other.
C16_Witness ==
    /\ apc = "done"
    /\ SingleDirectoryDelta
    /\ aarch.stem = <<"MyAddon", "-v2">>
    /\ aresult.name = <<"Other">>
    /\ aprev.ok


\* --------------------------------------------------------------- C18
\* C18: once a failing transaction has been recorded, the recorded step is
\* the step that was executing and the recorded error text is the original
\* cause of that step's failure, also during and after the rollback.
C18_RecordsOriginalCause ==
    (Handled /\ exc.kind = "Exception" /\ final.status = "failure")
        => final.failure_step = current_step /\ final.error = exc.cause


\* --------------------------------------------------------------- C19
\* C19: when the product requires the database and the user declines the
\* prompt of the database step, the step shows the reminder, returns no
\* credentials, raises nothing, starts no rollback, records the step as
\* successful and hands over to the next step.
C19_DeclinedRequiredDatabaseProceeds ==
    [][(pc = "mongodb" /\ params.requires_mongodb /\ mongo_choice' = "n")
        => /\ pc' = AfterMongo
           /\ exc' = NoExc
           /\ "This product requires MongoDB." \in warnings'
           /\ mongo_creds' = FALSE
           /\ rollbackCalls' = rollbackCalls
           /\ final' = final
           /\ host' = host
           /\ session_active =>
                 events'[Len(events')] = <<"mongodb", "success">>]_vars

\* An installation of a product that requires the database has completed
\* although the user declined the database setup.
C19_Witness ==
    /\ params.requires_mongodb
    /\ mongo_choice = "n"
    /\ "This product requires MongoDB." \in warnings
    /\ ~ mongo_creds
    /\ pc = "done"
    /\ final.status = "success"
    /\ rollbackCalls = 0


\* --------------------------------------------------------------- C20
\* C20: a lock is only ever held by a process that is still alive, on
\* every exit path, and an installer process is refused only when another
\* live installer holds the lock on the file it opened: after the holder
\* has exited, the next process acquires the lock.
C20_LockReleasedOnEveryExit ==
    [][/\ \A i \in Procs :
             locked'[i] # 0 => ppc'[locked'[i]] \in {"init", "running"}
       /\ \A p \in Procs :
             (ppc[p] = "flock" /\ ppc'[p] # "flock")
             => IF \E q \in Procs \ {p} :
                      ppc[q] \in {"init", "running"} /\ locked[fd[p]] = q
                THEN ppc'[p] = "refused"
                ELSE ppc'[p] = "init" /\ locked'[fd[p]] = p]_vars

\* A process left __init__ or was killed without running _release_lock
\* (its lock file is still there), and another process holds the lock on
\* that very file.
C20_Witness ==
    \E p, q \in Procs :
        /\ p # q
        /\ ppc[p] = "exited"
        /\ lockfile = p
        /\ fd[q] = p
        /\ locked[p] = q
        /\ ppc[q] \in {"init", "running"}


\* --------------------------------------------------------------- C21
\* C21: within one attempt no rollback flag of the context is ever unset
\* again, and each flag is set in the very step in which its external
\* operation (extraction, nginx setup, certificate issuance, service
\* creation, firewall port opening) returns successfully, never earlier.
C21_FlagsFollowTheirOperation ==
    [][/\ ctx.install_path_ready => ctx'.install_path_ready
       /\ ctx.nginx_configured => ctx'.nginx_configured
       /\ ctx.ssl_configured => ctx'.ssl_configured
       /\ ctx.service_created => ctx'.service_created
       /\ ctx.opened_port # NoPort => ctx'.opened_port = ctx.opened_port
       /\ (~ ctx.install_path_ready /\ ctx'.install_path_ready)
             => pc = "extraction" /\ pc' = "npm_install"
       /\ (~ ctx.nginx_configured /\ ctx'.nginx_configured)
             => pc = "web_nginx" /\ pc' = "web_ssl"
       /\ (~ ctx.ssl_configured /\ ctx'.ssl_configured)
             => pc = "web_ssl" /\ exc' = NoExc
       /\ (~ ctx.service_created /\ ctx'.service_created)
             => pc = "systemd" /\ pc' = "self_tests"
       /\ (ctx.opened_port = NoPort /\ ctx'.opened_port # NoPort)
             => pc = "web_firewall" /\ pc' = "web_dns"]_vars


\* --------------------------------------------------------------- C22
\* The install steps in their fixed order, and the ones this attempt runs.
StepOrder ==
    <<"archive_selection", "extraction", "npm_install", "error_page",
      "mongodb", "web_setup", "dashboard", "systemd", "self_tests",
      "post_install">>

Requested(step) ==
    /\ step = "web_setup" => params.needs_web
    /\ step = "dashboard" => params.has_dashboard

PlannedSteps == SelectSeq(StepOrder, Requested)

\* C22: a step starts only as the immediate successor, among the steps
\* that are not skipped, of the step before it, and only while no step has
\* raised; the first step to start is the archive selection.
C22_StepsRunInOrder ==
    [][current_step' # current_step
        => /\ exc = NoExc
           /\ IF current_step = "initializing"
              THEN current_step' = PlannedSteps[1]
              ELSE \E i \in 1..(Len(PlannedSteps) - 1) :
                      /\ PlannedSteps[i] = current_step
                      /\ PlannedSteps[i + 1] = current_step']_vars

\* An installation without web setup and dashboard has run its last step.
C22_Witness ==
    /\ ~ params.needs_web
    /\ ~ params.has_dashboard
    /\ current_step = "post_install"
    /\ pc = "done"
    /\ final.status = "success"


\* --------------------------------------------------------------- C23
\* The claimed order of the rollback sub-steps, and the flag of each.
RollbackOrder == <<"service", "nginx", "ssl", "dir", "firewall">>

RollbackRank(sub) == CHOOSE i \in 1..Len(RollbackOrder) : RollbackOrder[i] = sub

RollbackFlag(c, sub) ==
    IF sub = "service" THEN c.service_created
    ELSE IF sub = "nginx" THEN c.nginx_configured
    ELSE IF sub = "ssl" THEN c.ssl_configured
    ELSE IF sub = "dir" THEN c.install_path_ready
    ELSE c.opened_port # NoPort

\* The sub-steps attempted so far are in the claimed relative order.
RollbackInOrder ==
    \A i, j \in 1..Len(rbTrace) :
        i < j => RollbackRank(rbTrace[i]) < RollbackRank(rbTrace[j])

\* C23: the rollback attempts its sub-steps in the order service, nginx
\* site, certificate, installation directory, firewall port, and a
\* sub-step whose flag is false is not among them.
C23_RollbackOrder ==
    /\ RollbackInOrder
    /\ \A i \in 1..Len(rbTrace) : RollbackFlag(rollbackArg, rbTrace[i])


\* --------------------------------------------------------------- C24
\* C24: the path-safety check accepts an archive entry exactly when the
\* entry's resolved path is the target root or lies below it: every entry
\* the validation loop has passed is inside the root, and an entry it
\* rejected resolves outside the root.
C24_AcceptsIffInside ==
    /\ \A i \in 1..xchecked : ~ Escapes(RootPath, xarch.entries[i])
    /\ xerr.site = "traversal"
         => Escapes(RootPath, xarch.entries[xchecked + 1])


\* --------------------------------------------------------------- C25
\* The rar extraction of install_addon has returned: unrar was found and
\* exited with status 0.
RarExtracted ==
    /\ aarch.format = ".rar"
    /\ apc \in {"snapshot", "normalize", "done"}
    /\ aexc.kind \notin {"FileNotFoundError", "CalledProcessError"}

\* C25: every rar extraction is followed by a sweep over the extracted
\* files that fails the extraction when one of them resolves outside the
\* target directory: install_addon never gets past the extraction of a rar
\* archive that left such a file.
C25_RarSweepFailsExtraction ==
    aarch.fault = "link" => ~ RarExtracted


\* --------------------------------------------------------------- C26
\* Statuses of the report entries called `name`.
StatusOf(rs, name) == { rs[i].status : i \in { j \in DOMAIN rs : rs[j].name = name } }

\* The polls are bounded and stop at the first success: while the liveness
\* loop runs no query has answered "active" and fewer than PollAttempts
\* were made; it is left with is_active set or after exactly PollAttempts
\* queries; the port loop runs only before its deadline and is left with a
\* connection or a passed deadline; the two entries say pass exactly when
\* the loop ended with a success.
PollsBounded ==
    /\ queries <= PollAttempts
    /\ clock < PortTimeout + ConnectTimeout + SleepSeconds
    /\ spc = "poll" => ~ is_active /\ queries < PollAttempts
    /\ spc = "port_poll" =>
          /\ ~ port_ready
          /\ is_active \/ queries = PollAttempts
    /\ (spc = "entries" /\ sin.service_created) =>
          /\ is_active \/ queries = PollAttempts
          /\ port_ready \/ clock >= PortTimeout
    /\ (spc = "done" /\ sin.service_created) =>
          /\ StatusOf(sreport, "systemd service active")
                = {PassOr(is_active, "fail")}
          /\ StatusOf(sreport, "Local TCP port reachable")
                = {PassOr(port_ready, "fail")}

\* C26: the service-liveness poll makes at most 20 status queries, passes
\* at the first "active" answer and fails when none of the 20 gives it; the
\* port poll passes at the first connection and fails when its time budget
\* is used up; every started self-test returns its report.
C26_PollsTerminate ==
    /\ []PollsBounded
    /\ (spc = "basic") ~> (spc = "done")

C26_Witness ==
    /\ spc = "done"
    /\ sin.service_created
    /\ ~ is_active
    /\ ~ port_ready
    /\ StatusOf(sreport, "systemd service active") = {"fail"}
    /\ StatusOf(sreport, "Local TCP port reachable") = {"fail"}


\* --------------------------------------------------------------- C27
Has(rs, name) == StatusOf(rs, name) # {}

\* Entries whose probes are advisory.
WarnOnlyEntries ==
    {"node_modules present", "Config file present", "Local HTTP responds",
     "MongoDB read/write", "SSL certificate present", "DNS resolves",
     "HTTPS handshake"}

\* C27: in every self-test report the service-liveness and local-port
\* entries appear only when service_created is true, the HTTP-probe entry
\* only when the local-port entry is pass, the database read/write entry
\* only when the database-authentication entry is pass, and the entries
\* for node_modules, config file, HTTP probe, database read/write,
\* certificate presence, DNS resolution and TLS handshake are never fail.
C27_ReportShape ==
    /\ (\/ Has(sreport, "systemd service active")
        \/ Has(sreport, "Local TCP port reachable")) => sin.service_created
    /\ Has(sreport, "Local HTTP responds")
          => StatusOf(sreport, "Local TCP port reachable") = {"pass"}
    /\ Has(sreport, "MongoDB read/write")
          => StatusOf(sreport, "MongoDB auth via generated URI") = {"pass"}
    /\ \A n \in WarnOnlyEntries : "fail" \notin StatusOf(sreport, n)

C27_Witness ==
    /\ spc = "done"
    /\ StatusOf(sreport, "Local HTTP responds") = {"warn"}
    /\ StatusOf(sreport, "MongoDB read/write") = {"warn"}
    /\ StatusOf(sreport, "node_modules present") = {"warn"}
    /\ StatusOf(sreport, "Config file present") = {"warn"}
    /\ StatusOf(sreport, "SSL certificate present") = {"warn"}
    /\ StatusOf(sreport, "DNS resolves") = {"warn"}
    /\ StatusOf(sreport, "HTTPS handshake") = {"warn"}


\* --------------------------------------------------------------- C28
\* The call passes the checks addon_install makes before install_addon
\* (plex_cli.py 802-818): a zip or rar archive, and no addon folder of the
\* name derived from the archive base name.
CliAdmits ==
    /\ aarch.format \in {".zip", ".rar"}
    /\ LET name == DeriveName(aarch.stem)
       IN IF name = << >> THEN FALSE ELSE addons0[name] # "olddir"

\* C28: whatever the archive and the outcome of install_addon, every
\* top-level entry of addons/ that existed before the call exists afterwards
\* with its content unchanged: nothing of the archive has been written
\* onto or into it.
C28_ExistingEntriesUntouched ==
    (apc = "done" /\ CliAdmits)
    => \A n \in Entries(addons0) : addons[n] = addons0[n]


\* --------------------------------------------------------------- C29
\* C29: after _perform_update has failed, in the installer and in the plex
\* CLI, every bundle file has its pre-update content and no file that was
\* absent has been added; at any time a bundle file differs from its
\* pre-update content only by holding the verified content of the release.
C29_FailedUpdateChangesNothing ==
    /\ (upc = "done" /\ uresult = "failed") => ufiles = ufiles0
    /\ upc # "idle" =>
          \A i \in FileIdx : ufiles[i] # ufiles0[i] => ufiles[i] = "new"


\* --------------------------------------------------------------- C30
Counters == {"success", "failure", "other"}

\* most_recent lists the events newest first: the sequence numbers given
\* at recording decrease along the list.
NewestFirst(recent) ==
    \A i, j \in DOMAIN recent : i < j => recent[i] > recent[j]

\* C30: whatever the interleaving of concurrent POST /events requests, the
\* stored statistics count every processed event exactly once, in the one
\* counter of its status, so success + failure + other is the number of
\* processed events, and most_recent holds at most 20 entries, newest
\* first.
C30_NoLostUpdate ==
    /\ \A c \in Counters : tstats[c] = tprocessed[c]
    /\ Len(tstats.most_recent) <= RecentLimit
    /\ NewestFirst(tstats.most_recent)

\* Two workers have recorded events in different counters and most_recent
\* was cut to its limit.
C30_Witness ==
    /\ \A w \in Workers : tpc[w] = "idle"
    /\ tposted = MaxEvents
    /\ tstats.success + tstats.failure + tstats.other > RecentLimit
    /\ tstats.failure > 0
    /\ tstats.other > 0
    /\ Len(tstats.most_recent) = RecentLimit

====
